---- MODULE Spec2Model ----
(***************************************************************************)
(* Model of the simulation engine of the network-simulator backend         *)
(* (backend/app/core/simulation.py): the topology index (NetworkGraph),    *)
(* the anomaly policy set (AnomalyEngine), the packet walker               *)
(* (SimulationEngine._simulate_message) and the run coordinator            *)
(* (SimulationEngine.start_simulation / stop_simulation /                  *)
(* _run_simulation), scheduled by a single-threaded asyncio event loop.    *)
(*                                                                         *)
(* One action is one atomic block of a coroutine: the code between two     *)
(* consecutive awaits.  Every await of a publish                           *)
(* (manager.broadcast_to_session) and of a pacing wait (asyncio.sleep) is  *)
(* a suspension point at which other coroutines (other runs, start and     *)
(* stop requests) may run and at which a pending Task.cancel() is          *)
(* delivered as CancelledError.  Two consecutive awaits with no statement  *)
(* between them (a publish followed by a sleep) are one suspension point.  *)
(* asyncio.CancelledError derives from BaseException (Python 3.8 and       *)
(* later), so no except Exception clause catches it.                       *)
(*                                                                         *)
(* Spec interleaves up to MaxRuns runs with start and stop requests.       *)
(* WalkSpec examines the walks of WalkRuns runs over more snapshots, and   *)
(* FairWalkSpec adds the fairness of the event loop.  QuerySpec applies    *)
(* the topology index and the policy set to arguments drawn at the start,  *)
(* outside any run.  ApiSpec puts the endpoints of                         *)
(* backend/app/api/v1/endpoints/simulation.py in front of the engine, over *)
(* the rows of a database.  SinkSpec adds the event sink                   *)
(* (backend/app/websocket/manager.py): the connection manager and the      *)
(* websocket handlers of viewers that come and go while one run publishes; *)
(* there the send to each viewer is a suspension point of its own.         *)
(* ManagerSpec is the sink alone, with the viewers of one session.         *)
(* HistorySpec applies the undo/redo endpoint of                           *)
(* backend/app/api/v1/endpoints/sessions.py to the rows of the history     *)
(* table.                                                                  *)
(***************************************************************************)
EXTENDS Integers, Sequences, FiniteSets, TLC

\* Python's None.
None == 0

----------------------------------------------------------------------------
(* Bounds of the model *)

\* number of start requests accepted over the life of the process
MaxRuns == 2
\* resolution of random.random(): draws are 0/DrawScale .. (DrawScale-1)/DrawScale
DrawScale == 2

\* program constants
PathCutoff == 10
MaxPaths == 3
DefaultAdditionalDelayMs == 1000
DEFAULT_PACKET_DELAY_MS == 100

RunIds == 1..MaxRuns

\* the values random.random() can return, in units of 1/DrawScale: [0, 1)
Draws == 0..(DrawScale - 1)
\* probabilities in the same unit: 0.0, 0.5 (rounded down) and 1.0
P0 == 0
PHalf == DrawScale \div 2
P1 == DrawScale

----------------------------------------------------------------------------
(* Snapshots handed to start_simulation *)

Conn(id, s, d, lat, st) ==
    [id |-> id, source_node_id |-> s, destination_node_id |-> d,
     latency_ms |-> lat, status |-> st]

Msg(id, s, d) == [id |-> id, source_node_id |-> s, destination_node_id |-> d]

\* an Optional value is a sequence of length at most one: << >> is None.
\* parameters is an Optional dict
Rule(id, ty, node, conn, p, params, act) ==
    [id |-> id, anomaly_type |-> ty, affected_node_id |-> node,
     affected_connection_id |-> conn, probability |-> p,
     parameters |-> params, is_active |-> act]

EmptyDict == [k \in {} |-> 0]
NoParams == << EmptyDict >>
ParamsNull == << >>
\* {"additional_delay_ms": 500}
Delay500 == << [additional_delay_ms |-> 500] >>

\* nodes A=1, B=2, C=3, D=4; A-B and B-C active, C-D cut; D is isolated
LineConnections ==
    << Conn(1, 1, 2, 10, "active"), Conn(2, 2, 3, 10, "active"),
       Conn(3, 3, 4, 10, "inactive") >>

\* the arguments of the start requests: session, messages, nodes,
\* connections, anomalies.  These are the requests of the runs that are
\* interleaved with one another
InterleavedRequests ==
    << \* no anomalies: a routed message, then an unroutable one
       [session_id |-> "s1", nodes |-> <<1, 2, 3, 4>>,
        connections |-> LineConnections,
        messages |-> << Msg(1, 1, 3), Msg(2, 1, 4) >>,
        anomalies |-> << >>],
       \* loss at B with probability 1/2, misdelivery at C with probability 1/2
       [session_id |-> "s2", nodes |-> <<2, 3>>,
        connections |-> << Conn(2, 2, 3, 10, "active") >>,
        messages |-> << Msg(3, 2, 3) >>,
        anomalies |-> << Rule(1, "packet_loss", 2, None, PHalf, NoParams, TRUE),
                         Rule(2, "wrong_delivery", 3, None, PHalf, NoParams, TRUE) >>],
       \* a delay rule created with "parameters": null, which always fires,
       \* on the first of two messages
       [session_id |-> "s1", nodes |-> <<1, 2>>,
        connections |-> << Conn(1, 1, 2, 10, "active") >>,
        messages |-> << Msg(4, 1, 2), Msg(5, 2, 1) >>,
        anomalies |-> << Rule(3, "delay", 1, None, P1, ParamsNull, TRUE) >>] >>

\* nodes A=1, B=2, C=3: A-B and B-C active, the direct link A-C cut
ShortcutCutConnections ==
    << Conn(4, 1, 3, 10, "inactive"), Conn(1, 1, 2, 10, "active"),
       Conn(2, 2, 3, 10, "active") >>

\* four nodes, every two of them joined: five simple paths from A to D, and
\* the first the depth-first search finds, A-B-C-D, is no shortest one
MeshConnections ==
    << Conn(1, 1, 2, 10, "active"), Conn(2, 2, 3, 10, "active"),
       Conn(3, 3, 4, 10, "active"), Conn(4, 1, 3, 10, "active"),
       Conn(5, 2, 4, 10, "active"), Conn(6, 1, 4, 10, "active") >>

\* nodes on a ring, one more than a path of PathCutoff edges visits: the
\* long way between two neighbours has more than PathCutoff edges
RingNodes == [i \in 1..(PathCutoff + 2) |-> i]
RingConnections ==
    [i \in 1..(PathCutoff + 2) |->
        Conn(i, i, IF i = PathCutoff + 2 THEN 1 ELSE i + 1, 10, "active")]

\* the ring without the connection that closes it: a line of PathCutoff + 1
\* edges
LongLineConnections == SubSeq(RingConnections, 1, PathCutoff + 1)

\* the requests of the runs whose walks are examined one run at a time
WalkerRequests ==
    << \* loss at B with probability 1: a message through B, one leaving B,
       \* one ending at B
       [session_id |-> "s1", nodes |-> <<1, 2, 3>>,
        connections |-> << Conn(1, 1, 2, 10, "active"),
                           Conn(2, 2, 3, 10, "active") >>,
        messages |-> << Msg(6, 1, 3), Msg(7, 2, 1), Msg(8, 1, 2) >>,
        anomalies |-> << Rule(4, "packet_loss", 2, None, P1, NoParams, TRUE) >>],
       \* an unroutable message (D is isolated) followed by a routed one
       [session_id |-> "s1", nodes |-> <<1, 2, 3, 4>>,
        connections |-> LineConnections,
        messages |-> << Msg(9, 1, 4), Msg(10, 1, 2) >>,
        anomalies |-> << >>],
       \* a cut shortcut, and rules of every kind that would always fire but
       \* are not active
       [session_id |-> "s2", nodes |-> <<1, 2, 3>>,
        connections |-> ShortcutCutConnections,
        messages |-> << Msg(11, 1, 3) >>,
        anomalies |-> << Rule(5, "packet_loss", None, None, P1, NoParams, FALSE),
                         Rule(6, "delay", None, None, P1, ParamsNull, FALSE),
                         Rule(7, "corruption", None, None, P1, NoParams, FALSE),
                         Rule(8, "wrong_delivery", None, None, P1, NoParams, FALSE) >>],
       \* active rules: a delay of 500 ms at A, corruption at B with
       \* probability 1/2, loss at C, which no hop of the message leaves
       [session_id |-> "s2", nodes |-> <<1, 2, 3>>,
        connections |-> << Conn(1, 1, 2, 10, "active"),
                           Conn(2, 2, 3, 10, "active") >>,
        messages |-> << Msg(12, 1, 3) >>,
        anomalies |-> << Rule(9, "delay", 1, None, P1, Delay500, TRUE),
                         Rule(10, "corruption", 2, None, PHalf, NoParams, TRUE),
                         Rule(11, "packet_loss", 3, None, P1, NoParams, TRUE) >>],
       \* more routes than the path query returns
       [session_id |-> "s1", nodes |-> <<1, 2, 3, 4>>,
        connections |-> MeshConnections,
        messages |-> << Msg(13, 1, 4) >>,
        anomalies |-> << >>],
       \* neighbours on the ring, and two nodes three edges apart
       [session_id |-> "s2", nodes |-> RingNodes,
        connections |-> RingConnections,
        messages |-> << Msg(14, 1, PathCutoff + 2), Msg(15, 2, PathCutoff + 1) >>,
        anomalies |-> << >>],
       \* nodes 5 and 6 were deleted after the messages that name them were
       \* created: as destination, as source and as both, then a routed message
       [session_id |-> "s1", nodes |-> <<1, 2>>,
        connections |-> << Conn(1, 1, 2, 10, "active") >>,
        messages |-> << Msg(16, 1, 5), Msg(17, 5, 1), Msg(18, 5, 6),
                        Msg(19, 1, 2) >>,
        anomalies |-> << >>],
       \* the ends of the line, one edge further apart than a path of
       \* PathCutoff edges reaches, then two nodes PathCutoff edges apart
       [session_id |-> "s2", nodes |-> RingNodes,
        connections |-> LongLineConnections,
        messages |-> << Msg(27, 1, PathCutoff + 2), Msg(28, 1, PathCutoff + 1) >>,
        anomalies |-> << >>] >>

\* every request a run is started with
----------------------------------------------------------------------------
(* The simulation endpoints: the caller-facing boundary *)

\* the rows of the database, by session.  In s1 one of two rules is active,
\* a loss at node 1; in s2 node 9 is isolated and the rule is a delay created
\* with "parameters": null; s3 has lost its nodes (a node without connections
\* can be deleted while messages still name it); the only connection of s4
\* is cut
Database ==
    [s1 |-> [nodes |-> <<1, 2>>,
             connections |-> << Conn(1, 1, 2, 10, "active") >>,
             messages |-> << Msg(21, 1, 2), Msg(22, 2, 1) >>,
             anomalies |-> << Rule(12, "packet_loss", 1, None, P1, NoParams, TRUE),
                              Rule(13, "corruption", None, None, P1, NoParams,
                                   FALSE) >>],
     s2 |-> [nodes |-> <<3, 4, 9>>,
             connections |-> << Conn(5, 3, 4, 10, "active"),
                                Conn(6, 4, 9, 10, "inactive") >>,
             messages |-> << Msg(23, 3, 4), Msg(26, 3, 9) >>,
             anomalies |-> << Rule(14, "delay", 3, None, P1, ParamsNull, TRUE) >>],
     s3 |-> [nodes |-> << >>,
             connections |-> << >>,
             messages |-> << Msg(24, 5, 6) >>,
             anomalies |-> << >>],
     s4 |-> [nodes |-> <<7, 8>>,
             connections |-> << Conn(7, 7, 8, 10, "inactive") >>,
             messages |-> << Msg(25, 7, 8) >>,
             anomalies |-> << >>]]

\* SimulationRequest
SimulationRequest(message_ids, enable_anomalies) ==
    [message_ids |-> message_ids, enable_anomalies |-> enable_anomalies]

\* HTTPException
HTTPException(status_code, detail) ==
    [status_code |-> status_code, detail |-> detail, start |-> << >>]

\* the messages of the session whose id is in message_ids
RequestedMessages(db, session_id, message_ids) ==
    SelectSeq(db[session_id].messages,
              LAMBDA m : \E i \in 1..Len(message_ids) : m.id = message_ids[i])

\* the endpoint without its comparison of the messages found with the
\* message ids requested
start_simulation_found_messages(db, session_id, simulation_request) ==
    IF session_id \notin DOMAIN db
    THEN HTTPException(404, "Session not found")
    ELSE LET messages == RequestedMessages(db, session_id,
                                           simulation_request.message_ids)
             nodes == db[session_id].nodes
             connections == SelectSeq(db[session_id].connections,
                                      LAMBDA c : c.status = "active")
             anomalies == IF simulation_request.enable_anomalies
                          THEN SelectSeq(db[session_id].anomalies,
                                         LAMBDA a : a.is_active)
                          ELSE << >>
         IN IF nodes = << >>
            THEN HTTPException(400, "No nodes found in session")
            ELSE IF connections = << >>
            THEN HTTPException(400, "No active connections found in session")
            ELSE [status_code |-> 200, detail |-> "started",
                  start |-> << [session_id |-> session_id, nodes |-> nodes,
                                connections |-> connections,
                                messages |-> messages,
                                anomalies |-> anomalies] >>]

\* the endpoint reading the active rules of the session whatever
\* enable_anomalies says
start_simulation_always_anomalies(db, session_id, simulation_request) ==
    IF session_id \notin DOMAIN db
    THEN HTTPException(404, "Session not found")
    ELSE LET messages == RequestedMessages(db, session_id,
                                           simulation_request.message_ids)
             nodes == db[session_id].nodes
             connections == SelectSeq(db[session_id].connections,
                                      LAMBDA c : c.status = "active")
             anomalies == SelectSeq(db[session_id].anomalies,
                                    LAMBDA a : a.is_active)
         IN IF Len(messages) # Len(simulation_request.message_ids)
            THEN HTTPException(400, "One or more messages not found")
            ELSE IF nodes = << >>
            THEN HTTPException(400, "No nodes found in session")
            ELSE IF connections = << >>
            THEN HTTPException(400, "No active connections found in session")
            ELSE [status_code |-> 200, detail |-> "started",
                  start |-> << [session_id |-> session_id, nodes |-> nodes,
                                connections |-> connections,
                                messages |-> messages,
                                anomalies |-> anomalies] >>]

\* the endpoint up to its call of the engine: the exception it raises, or
\* the arguments it passes to simulation_engine.start_simulation
start_simulation(db, session_id, simulation_request) ==
    IF session_id \notin DOMAIN db
    THEN HTTPException(404, "Session not found")
    ELSE LET messages == RequestedMessages(db, session_id,
                                           simulation_request.message_ids)
             nodes == db[session_id].nodes
             connections == SelectSeq(db[session_id].connections,
                                      LAMBDA c : c.status = "active")
             anomalies == IF simulation_request.enable_anomalies
                          THEN SelectSeq(db[session_id].anomalies,
                                         LAMBDA a : a.is_active)
                          ELSE << >>
         IN IF Len(messages) # Len(simulation_request.message_ids)
            THEN HTTPException(400, "One or more messages not found")
            ELSE IF nodes = << >>
            THEN HTTPException(400, "No nodes found in session")
            ELSE IF connections = << >>
            THEN HTTPException(400, "No active connections found in session")
            ELSE [status_code |-> 200, detail |-> "started",
                  start |-> << [session_id |-> session_id, nodes |-> nodes,
                                connections |-> connections,
                                messages |-> messages,
                                anomalies |-> anomalies] >>]

\* the start requests made of the endpoint
StartCall(session_id, message_ids, enable_anomalies) ==
    [op |-> "start", session_id |-> session_id,
     simulation_request |-> SimulationRequest(message_ids, enable_anomalies)]

StartCalls ==
    << StartCall("s1", <<21, 22>>, TRUE),
       StartCall("s1", <<21>>, FALSE),
       StartCall("s2", <<23>>, TRUE),
       StartCall("s2", <<26>>, TRUE),
       \* 23 is a message of s2
       StartCall("s1", <<21, 22, 23>>, TRUE),
       StartCall("s3", <<24>>, TRUE),
       StartCall("s4", <<25>>, TRUE),
       StartCall("s9", <<21>>, TRUE),
       StartCall("s1", <<21>>, TRUE) >>

StartResponse(c) == start_simulation(Database, c.session_id, c.simulation_request)

\* the arguments the endpoint passes to the engine for the calls it accepts
EndpointRequests ==
    << [session_id |-> "s1", nodes |-> <<1, 2>>,
        connections |-> << Conn(1, 1, 2, 10, "active") >>,
        messages |-> << Msg(21, 1, 2), Msg(22, 2, 1) >>,
        anomalies |-> << Rule(12, "packet_loss", 1, None, P1, NoParams, TRUE) >>],
       [session_id |-> "s1", nodes |-> <<1, 2>>,
        connections |-> << Conn(1, 1, 2, 10, "active") >>,
        messages |-> << Msg(21, 1, 2) >>,
        anomalies |-> << >>],
       [session_id |-> "s2", nodes |-> <<3, 4, 9>>,
        connections |-> << Conn(5, 3, 4, 10, "active") >>,
        messages |-> << Msg(23, 3, 4) >>,
        anomalies |-> << Rule(14, "delay", 3, None, P1, ParamsNull, TRUE) >>],
       [session_id |-> "s2", nodes |-> <<3, 4, 9>>,
        connections |-> << Conn(5, 3, 4, 10, "active") >>,
        messages |-> << Msg(26, 3, 9) >>,
        anomalies |-> << Rule(14, "delay", 3, None, P1, ParamsNull, TRUE) >>],
       [session_id |-> "s1", nodes |-> <<1, 2>>,
        connections |-> << Conn(1, 1, 2, 10, "active") >>,
        messages |-> << Msg(21, 1, 2) >>,
        anomalies |-> << Rule(12, "packet_loss", 1, None, P1, NoParams, TRUE) >>] >>

Requests == InterleavedRequests \o WalkerRequests \o EndpointRequests

EndpointIds ==
    (Len(InterleavedRequests) + Len(WalkerRequests) + 1)..Len(Requests)

InterleavedIds == 1..Len(InterleavedRequests)
RequestIds == 1..Len(Requests)

----------------------------------------------------------------------------
(* Topology index: NetworkGraph *)

\* nx.Graph: the nodes in insertion order, the adjacency of each node in
\* insertion order, and the attributes of each edge
EmptyGraph == [nodes |-> << >>, adj |-> << >>, attr |-> << >>]

InSeq(x, s) == \E i \in 1..Len(s) : s[i] = x

\* graph.add_node: a node the graph has already is left as it is
AddNode(g, n) ==
    [g EXCEPT !.nodes = IF InSeq(n, @) THEN @ ELSE Append(@, n),
              !.adj = IF n \in DOMAIN @ THEN @ ELSE @ @@ (n :> << >>)]

AddHalfEdge(g, u, v) ==
    [g EXCEPT !.adj[u] = IF InSeq(v, @) THEN @ ELSE Append(@, v)]

AddEdge(g, c) ==
    LET u == c.source_node_id
        v == c.destination_node_id
        g1 == AddNode(AddNode(g, u), v)
        g2 == AddHalfEdge(AddHalfEdge(g1, u, v), v, u)
        a == [connection_id |-> c.id, latency |-> c.latency_ms]
    IN [g2 EXCEPT !.attr = ({u, v} :> a) @@ @]

RECURSIVE AddNodes(_, _, _)
AddNodes(g, nodes, i) ==
    IF i > Len(nodes) THEN g ELSE AddNodes(AddNode(g, nodes[i]), nodes, i + 1)

\* AddEdges without the test of connection.status
RECURSIVE AddEdgesAnyStatus(_, _, _)
AddEdgesAnyStatus(g, connections, i) ==
    IF i > Len(connections) THEN g
    ELSE AddEdgesAnyStatus(AddEdge(g, connections[i]), connections, i + 1)

RECURSIVE AddEdges(_, _, _)
AddEdges(g, connections, i) ==
    IF i > Len(connections) THEN g
    ELSE AddEdges(IF connections[i].status = "active"
                  THEN AddEdge(g, connections[i]) ELSE g,
                  connections, i + 1)

build_from_session_data(nodes, connections) ==
    AddEdges(AddNodes(EmptyGraph, nodes, 1), connections, 1)

\* nx.all_simple_paths: depth-first over the adjacency lists, in their order;
\* visited is the path so far; a path may have at most cutoff edges.  The
\* path so far is bound to its value (deeper) before the search descends
RECURSIVE SimplePathsFrom(_, _, _, _, _)
SimplePathsFrom(g, visited, target, cutoff, i) ==
    LET children == g.adj[visited[Len(visited)]]
    IN IF i > Len(children) THEN << >>
       ELSE LET child == children[i]
                here == IF InSeq(child, visited) THEN << >>
                        ELSE IF child = target THEN << Append(visited, child) >>
                        ELSE IF Len(visited) < cutoff
                             THEN CHOOSE found \in
                                    {SimplePathsFrom(g, deeper, target, cutoff, 1) :
                                        deeper \in {Append(visited, child)}} : TRUE
                             ELSE << >>
            IN here \o SimplePathsFrom(g, visited, target, cutoff, i + 1)

\* raises NodeNotFound when an endpoint is no node of the graph; yields
\* nothing when source = target or cutoff < 1
all_simple_paths(g, source, target, cutoff) ==
    IF ~InSeq(source, g.nodes) \/ ~InSeq(target, g.nodes)
    THEN [raised |-> "NodeNotFound", paths |-> << >>]
    ELSE IF source = target \/ cutoff < 1 THEN [raised |-> "", paths |-> << >>]
    ELSE [raised |-> "",
          paths |-> SimplePathsFrom(g, << source >>, target, cutoff, 1)]

\* the paths left in the order the search found them
SortByLenKeepsOrder(paths, n, maxLen) == paths

\* list.sort(key=len): stable
RECURSIVE SortByLen(_, _, _)
SortByLen(paths, n, maxLen) ==
    IF n > maxLen THEN << >>
    ELSE SelectSeq(paths, LAMBDA p : Len(p) = n) \o SortByLen(paths, n + 1, maxLen)

Take(s, n) == IF Len(s) <= n THEN s ELSE SubSeq(s, 1, n)

\* the path query searching without its cutoff of 10 edges
find_all_paths_no_cutoff(g, source_id, destination_id) ==
    LET found == all_simple_paths(g, source_id, destination_id, Len(g.nodes))
    IN IF found.raised = "NodeNotFound" THEN << >>
       ELSE Take(SortByLen(found.paths, 1, Len(g.nodes)), MaxPaths)

find_all_paths(g, source_id, destination_id) ==
    LET found == all_simple_paths(g, source_id, destination_id, PathCutoff)
    IN IF found.raised = "NodeNotFound" THEN << >>
       ELSE Take(SortByLen(found.paths, 1, PathCutoff + 1), MaxPaths)

\* nx.shortest_path, unweighted: raises NodeNotFound when an endpoint is no
\* node of the graph and NetworkXNoPath when no path joins them; the path
\* from a node to itself is the node alone.  paths holds every path with
\* the fewest edges: which of them the bidirectional search returns is not
\* modelled
shortest_path(g, source, target) ==
    IF ~InSeq(source, g.nodes) \/ ~InSeq(target, g.nodes)
    THEN [raised |-> "NodeNotFound", paths |-> {}]
    ELSE IF source = target THEN [raised |-> "", paths |-> {<< source >>}]
    ELSE LET all == SimplePathsFrom(g, << source >>, target, Len(g.nodes), 1)
             ix == 1..Len(all)
         IN IF all = << >> THEN [raised |-> "NetworkXNoPath", paths |-> {}]
            ELSE [raised |-> "",
                  paths |-> {all[i] : i \in {j \in ix :
                                \A k \in ix : Len(all[j]) <= Len(all[k])}}]

\* what find_shortest_path can return: the empty sequence for None
find_shortest_path(g, source_id, destination_id) ==
    LET found == shortest_path(g, source_id, destination_id)
    IN IF found.raised # "" THEN {<< >>}
       ELSE {<< p >> : p \in found.paths}

\* what find_all_paths can return.  For source = target a node of the
\* graph, nx.all_simple_paths yields nothing or the one-node path,
\* depending on the networkx release installed (none is pinned)
find_all_paths_outcomes(g, source_id, destination_id) ==
    IF source_id = destination_id /\ InSeq(source_id, g.nodes)
    THEN {<< >>, << << source_id >> >>}
    ELSE {find_all_paths(g, source_id, destination_id)}

\* an edge found only from its lower node to its higher one
has_edge_ascending(g, node1_id, node2_id) ==
    node1_id < node2_id /\ {node1_id, node2_id} \in DOMAIN g.attr

has_edge(g, node1_id, node2_id) == {node1_id, node2_id} \in DOMAIN g.attr

\* the attributes of the edge, or the empty sequence for None
get_connection_info(g, node1_id, node2_id) ==
    IF has_edge(g, node1_id, node2_id) THEN << g.attr[{node1_id, node2_id}] >>
    ELSE << >>

\* the topology index of each request, built once per start
NetworkOf(request) ==
    build_from_session_data(request.nodes, request.connections)

Networks == [q \in RequestIds |-> NetworkOf(Requests[q])]

\* network.find_all_paths(message.source_node_id, message.destination_node_id)
\* for each message of each request: the graph of a run never changes
RoutesOf(request) ==
    [i \in 1..Len(request.messages) |->
        find_all_paths(NetworkOf(request),
                       request.messages[i].source_node_id,
                       request.messages[i].destination_node_id)]

Routes == [q \in RequestIds |-> RoutesOf(Requests[q])]

----------------------------------------------------------------------------
(* Anomaly policy set: AnomalyEngine *)

\* {a.id: a for a in anomalies}: without the test of is_active
AnomalyEngineInitUnfiltered(anomalies) == anomalies

\* {a.id: a for a in anomalies if a.is_active}: a dict keeps insertion order
AnomalyEngineInit(anomalies) == SelectSeq(anomalies, LAMBDA a : a.is_active)

AnomalyEngines == [q \in RequestIds |-> AnomalyEngineInit(Requests[q].anomalies)]

\* random.random() <= anomaly.probability
should_apply_anomaly_inclusive(anomaly, draw) == draw <= anomaly.probability

\* random.random() < anomaly.probability, for the value drawn
should_apply_anomaly(anomaly, draw) == draw < anomaly.probability

\* the test of the rule's kind alone, without the test of its node
InScopeAnyNode(anomaly, kind, current_node_id) ==
    anomaly.anomaly_type = kind

\* the test of kind and node, passed only by a rule that names no connection
InScopeNoConnection(anomaly, kind, current_node_id) ==
    /\ anomaly.anomaly_type = kind
    /\ (anomaly.affected_node_id = None \/ anomaly.affected_node_id = current_node_id)
    /\ anomaly.affected_connection_id = None

InScope(anomaly, kind, current_node_id) ==
    /\ anomaly.anomaly_type = kind
    /\ (anomaly.affected_node_id = None \/ anomaly.affected_node_id = current_node_id)

\* the first rule of the kind, in scope, that fires; 0 when none does.
\* draws[i] is the value random.random() returns if rule i is evaluated
FirstFiring(rules, kind, current_node_id, draws) ==
    LET firing == {i \in 1..Len(rules) :
                      /\ InScope(rules[i], kind, current_node_id)
                      /\ should_apply_anomaly(rules[i], draws[i])}
    IN IF firing = {} THEN 0
       ELSE CHOOSE i \in firing : \A j \in firing : i <= j

\* apply_packet_loss that scans only the rules without an affected node
apply_packet_loss_unscoped_only(rules, current_node_id, draws) ==
    FirstFiring(SelectSeq(rules, LAMBDA a : a.affected_node_id = None),
                "packet_loss", current_node_id, draws) # 0

apply_packet_loss(rules, current_node_id, draws) ==
    FirstFiring(rules, "packet_loss", current_node_id, draws) # 0

\* anomaly.parameters.get("additional_delay_ms", 1000) raises AttributeError
\* when parameters is None
apply_delay(rules, current_node_id, base_delay, draws) ==
    LET i == FirstFiring(rules, "delay", current_node_id, draws)
    IN IF i = 0 THEN [raised |-> "", value |-> base_delay]
       ELSE IF rules[i].parameters = << >>
            THEN [raised |-> "AttributeError", value |-> 0]
            ELSE LET d == rules[i].parameters[1]
                     additional_delay ==
                         IF "additional_delay_ms" \in DOMAIN d
                         THEN d["additional_delay_ms"]
                         ELSE DefaultAdditionalDelayMs
                 IN [raised |-> "", value |-> base_delay + additional_delay]

apply_corruption(rules, current_node_id, draws) ==
    FirstFiring(rules, "corruption", current_node_id, draws) # 0

\* choice is the index random.choice picks in available_nodes; None (0) when
\* no rule fires
apply_wrong_delivery(rules, current_node_id, available_nodes, draws, choice) ==
    IF FirstFiring(rules, "wrong_delivery", current_node_id, draws) = 0 THEN None
    ELSE available_nodes[choice]

----------------------------------------------------------------------------
(* Run coordinator and packet walker: SimulationEngine *)

VARIABLES
    decided,             \* per run: the anomaly engine's calls and what they returned
    slept,               \* per run: the hop delays its walker has waited
    active_simulations,  \* dict: run id -> bool
    simulation_tasks,    \* dict: run id -> the task (named by its run id)
    next_id,             \* run ids handed out so far (uuid4 is fresh)
    args,                \* per run: the request its task was created with
    pc,                  \* per run: where its task is suspended
    msg_i,               \* per run: index of the message being walked
    hop_i,               \* per run: index i of the walker's hop loop
    must_cancel,         \* per run: Task.cancel() is pending on its task
    events,              \* per run: the events it has published, in order
    cancels,             \* per run: how often Task.cancel() was called
    stopped,             \* per run: a stop request tore the run down
    error_at,            \* per run: message during which an exception was raised
    saw_inactive,        \* per run: a cooperative check found the run inactive
    key_error,           \* a registry access raised KeyError
    call,                \* a query of the topology index or the policy set
    result,              \* what the query returned, once it has
    active_connections,  \* manager: dict session id -> list of sockets
    generation,          \* per session: which list object its entry holds
    sockets,             \* per socket: its session, the state of its connection
    undo_redo_history,   \* database: the rows of the table undo_redo_history
    sending,             \* per run: the broadcast its task is suspended in
    ws_sending           \* per socket: the broadcast its handler is suspended in

vars == << active_simulations, simulation_tasks, next_id, args, pc, msg_i,
           hop_i, must_cancel, events, cancels, stopped, error_at,
           saw_inactive, key_error, decided, slept, call, result,
           active_connections, generation, sockets, sending, ws_sending,
           undo_redo_history >>

\* what the connection manager and the websocket handlers own
manager_vars == << active_connections, generation, sockets, ws_sending >>

\* what the engine owns
coordinator_vars ==
    << active_simulations, simulation_tasks, next_id, args, pc, msg_i, hop_i,
       must_cancel, events, cancels, stopped, error_at, saw_inactive,
       key_error, decided, slept >>

\* the queries are made outside any run
query_vars == << call, result, undo_redo_history >>
\* what one task owns
task_vars ==
    << args, pc, msg_i, hop_i, events, error_at, saw_inactive, decided,
       slept >>

Event(type, message_id, node, from, path, is_corrupted, delay_ms) ==
    [event_type |-> type, message_id |-> message_id, node |-> node,
     from |-> from, path |-> path, is_corrupted |-> is_corrupted,
     delay_ms |-> delay_ms]

RunEvent(type) == Event(type, None, None, None, << >>, FALSE, 0)

\* the "reason" of an event: only packet_failed carries one, a literal
Reason(e) == IF e.event_type = "packet_failed" THEN "No path available" ELSE ""

TerminalTypes ==
    {"packet_delivered", "packet_lost", "packet_misdelivered", "packet_failed"}

\* dict operations
DictSet(d, k, v) == (k :> v) @@ d
DictDel(d, k) == [x \in (DOMAIN d) \ {k} |-> d[x]]
\* if k in d: del d[k]
DelIfPresent(d, k) == IF k \in DOMAIN d THEN DictDel(d, k) ELSE d
\* self.active_simulations.get(simulation_id, False)
IsActive(active, r) == IF r \in DOMAIN active THEN active[r] ELSE FALSE

Messages(r) == Requests[args[r]].messages
Network(r) == Networks[args[r]]
\* one anomaly engine for the whole process, replaced at each start
RulesOfLatestStart(r) == AnomalyEngines[args[next_id]]

\* the anomaly engine start_simulation built for the run
Rules(r) == AnomalyEngines[args[r]]

\* one value of random.random() for each rule a scan evaluates; a rule of
\* another kind or out of scope is not evaluated and draws nothing
DrawsFor(rules, kind, current_node_id) ==
    LET evaluated(i) == InScope(rules[i], kind, current_node_id)
    IN {d \in [1..Len(rules) -> Draws] :
           \A i \in 1..Len(rules) : ~evaluated(i) => d[i] = 0}

\* no query is made
NoCall == [op |-> "none"]

\* SimulationEngine.__init__: no run, and no task yet
EngineInit ==
    /\ active_simulations = << >>
    /\ simulation_tasks = << >>
    /\ next_id = 0
    /\ args = [r \in RunIds |-> 0]
    /\ pc = [r \in RunIds |-> "none"]
    /\ msg_i = [r \in RunIds |-> 0]
    /\ hop_i = [r \in RunIds |-> 0]
    /\ must_cancel = [r \in RunIds |-> FALSE]
    /\ events = [r \in RunIds |-> << >>]
    /\ cancels = [r \in RunIds |-> 0]
    /\ stopped = [r \in RunIds |-> FALSE]
    /\ error_at = [r \in RunIds |-> 0]
    /\ saw_inactive = [r \in RunIds |-> FALSE]
    /\ key_error = FALSE
    /\ decided = [r \in RunIds |-> << >>]
    /\ slept = [r \in RunIds |-> << >>]

\* viewers that connect over the life of the process
MaxSockets == 2

\* the viewers of the one session whose fan-out is examined
MaxViewers == 3

Sockets == 1..MaxSockets \cup 1..MaxViewers

\* ConnectionManager.__init__, and no websocket handler yet
ManagerInit ==
    /\ active_connections = << >>
    /\ generation = [s \in {"s1", "s2"} |-> 0]
    /\ sockets = [w \in Sockets |->
                     [session_id |-> "", state |-> "none", handler |-> FALSE]]
    /\ sending = [r \in RunIds |-> << >>]
    /\ ws_sending = [w \in Sockets |-> << >>]

\* the table undo_redo_history as create_all leaves it
HistoryEmpty == undo_redo_history = << >>

Init ==
    /\ EngineInit
    /\ ManagerInit
    /\ HistoryEmpty
    /\ call = NoCall
    /\ result = << >>

\* start_simulation running the first step of the task itself: it publishes
\* simulation_started before it returns
StartSimulationEager(q) ==
    /\ next_id < MaxRuns
    /\ LET simulation_id == next_id + 1
       IN /\ next_id' = simulation_id
          /\ args' = [args EXCEPT ![simulation_id] = q]
          /\ active_simulations' = DictSet(active_simulations, simulation_id, TRUE)
          /\ simulation_tasks' = DictSet(simulation_tasks, simulation_id, simulation_id)
          /\ events' = [events EXCEPT ![simulation_id] =
                            << RunEvent("simulation_started") >>]
          /\ pc' = [pc EXCEPT ![simulation_id] = "loop"]
          /\ msg_i' = [msg_i EXCEPT ![simulation_id] = 1]
    /\ UNCHANGED << hop_i, must_cancel, cancels, stopped, error_at,
                    saw_inactive, key_error >>
    /\ UNCHANGED << decided, slept, call, result, undo_redo_history >>
    /\ UNCHANGED << sending, manager_vars >>

\* start_simulation has no await: it is one atomic block.  The task is
\* created but has not run yet when start returns.
EngineStart(q) ==
    /\ next_id < MaxRuns
    /\ LET simulation_id == next_id + 1
       IN /\ next_id' = simulation_id
          /\ args' = [args EXCEPT ![simulation_id] = q]
          /\ active_simulations' = DictSet(active_simulations, simulation_id, TRUE)
          /\ simulation_tasks' = DictSet(simulation_tasks, simulation_id, simulation_id)
          /\ pc' = [pc EXCEPT ![simulation_id] = "created"]
    /\ UNCHANGED << msg_i, hop_i, must_cancel, events, cancels, stopped,
                    error_at, saw_inactive, key_error, decided, slept >>
    /\ UNCHANGED << sending, manager_vars >>

\* the engine called directly, outside any endpoint
StartSimulation(q) ==
    /\ EngineStart(q)
    /\ UNCHANGED << call, result, undo_redo_history >>

\* The registry and the tasks' cancellation state, as stop_simulation sees them
Registry ==
    [active |-> active_simulations, tasks |-> simulation_tasks,
     must_cancel |-> must_cancel, cancels |-> cancels, stopped |-> stopped,
     key_error |-> key_error]

\* stop_simulation without task.cancel()
stop_simulation_no_cancel(reg, simulation_id) ==
    IF simulation_id \in DOMAIN reg.active
    THEN [reg EXCEPT !.active = DictDel(@, simulation_id),
                     !.tasks = DelIfPresent(@, simulation_id),
                     !.stopped[simulation_id] = TRUE]
    ELSE reg

\* stop_simulation without the two del statements
stop_simulation_keep_entries(reg, simulation_id) ==
    IF simulation_id \in DOMAIN reg.active
    THEN [reg EXCEPT !.active = DictSet(@, simulation_id, FALSE),
                     !.must_cancel[simulation_id] = TRUE,
                     !.cancels[simulation_id] = @ + 1,
                     !.stopped[simulation_id] = TRUE]
    ELSE reg

\* stop_simulation cancelling every task of the registry
stop_simulation_every_task(reg, simulation_id) ==
    IF simulation_id \in DOMAIN reg.active
    THEN [reg EXCEPT !.active = DictDel(@, simulation_id),
                     !.tasks = DelIfPresent(@, simulation_id),
                     !.must_cancel = [r \in DOMAIN @ |->
                                         @[r] \/ r \in DOMAIN reg.tasks],
                     !.cancels[simulation_id] = @ + 1,
                     !.stopped[simulation_id] = TRUE]
    ELSE reg

\* stop_simulation, as a function of the registry.  task.cancel() asks for
\* CancelledError to be thrown into the task at its next step.
stop_simulation(reg, simulation_id) ==
    IF simulation_id \in DOMAIN reg.active
    THEN LET flagged == DictSet(reg.active, simulation_id, FALSE)
             has_task == simulation_id \in DOMAIN reg.tasks
         IN [active |-> DictDel(flagged, simulation_id),
             tasks |-> IF has_task THEN DictDel(reg.tasks, simulation_id)
                       ELSE reg.tasks,
             must_cancel |-> IF has_task
                             THEN [reg.must_cancel EXCEPT ![simulation_id] = TRUE]
                             ELSE reg.must_cancel,
             cancels |-> IF has_task
                         THEN [reg.cancels EXCEPT ![simulation_id] = @ + 1]
                         ELSE reg.cancels,
             stopped |-> [reg.stopped EXCEPT ![simulation_id] = TRUE],
             key_error |-> reg.key_error \/ simulation_id \notin DOMAIN flagged]
    ELSE reg

\* a stop request for any run id: unknown, running, finished or stopped
EngineStop(r) ==
    /\ LET reg == stop_simulation(Registry, r)
       IN /\ active_simulations' = reg.active
          /\ simulation_tasks' = reg.tasks
          /\ must_cancel' = reg.must_cancel
          /\ cancels' = reg.cancels
          /\ stopped' = reg.stopped
          /\ key_error' = reg.key_error
    /\ UNCHANGED << next_id, task_vars >>
    /\ UNCHANGED << sending, manager_vars >>

StopSimulation(r) ==
    /\ EngineStop(r)
    /\ UNCHANGED << call, result, undo_redo_history >>

\* manager.send_to_session as a coroutine frame: the event, the session, the
\* list object it iterates (named by the generation of the session's entry),
\* the number of elements its iterator has given, the connection whose
\* send_text it awaits, dead_connections, and the sockets sent to so far.
\* Without an entry for the session it returns at once: no frame.  An entry
\* never holds an empty list
Frame(connections, generations, session_id, run, event) ==
    IF session_id \in DOMAIN connections
    THEN << [session_id |-> session_id, run |-> run, event |-> event,
             list |-> generations[session_id], i |-> 1,
             cur |-> connections[session_id][1], dead |-> << >>,
             sent |-> << >>] >>
    ELSE << >>

send_to_session(session_id, run, event) ==
    Frame(active_connections, generation, session_id, run, event)

\* the event is published under session_id; run is the run it comes from,
\* None for an event of a websocket handler
broadcast_to_session(session_id, run, event) ==
    send_to_session(session_id, run, event)

\* a publish of run r: manager.broadcast_to_session(session_id, ...) with
\* the session_id its task was created with
Emit(r, e) ==
    /\ events' = [events EXCEPT ![r] = Append(@, e)]
    /\ sending' = [sending EXCEPT ![r] =
                      broadcast_to_session(Requests[args[r]].session_id, r, e)]

\* a task takes a step only when the loop resumes it, once the broadcast it
\* awaits has returned, and a task with a pending cancellation is resumed
\* with CancelledError instead
Resumes(r, at) == pc[r] = at /\ ~must_cancel[r] /\ sending[r] = << >>

\* first step of the task: try: publish simulation_started
RunBegin(r) ==
    /\ Resumes(r, "created")
    /\ Emit(r, RunEvent("simulation_started"))
    /\ pc' = [pc EXCEPT ![r] = "loop"]
    /\ msg_i' = [msg_i EXCEPT ![r] = 1]
    /\ UNCHANGED << active_simulations, simulation_tasks, next_id, args, hop_i,
                    must_cancel, cancels, stopped, error_at, saw_inactive,
                    key_error >>
    /\ UNCHANGED << decided, slept, call, result, undo_redo_history >>
    /\ UNCHANGED manager_vars

\* the walker's route for the message being walked: paths[0]
\* for message in reversed(messages)
MessageIndexReversed(r) == Len(Messages(r)) - msg_i[r] + 1

\* for message in messages: the loop takes the messages in list order
MessageIndex(r) == msg_i[r]
Message(r) == Messages(r)[MessageIndex(r)]
Paths(r) == Routes[args[r]][MessageIndex(r)]
ChosenPath(r) == Paths(r)[1]

MessageDone(r) ==
    /\ pc' = [pc EXCEPT ![r] = "loop"]
    /\ msg_i' = [msg_i EXCEPT ![r] = @ + 1]

\* RunComplete without its publish of simulation_completed
RunCompleteSilent(r) ==
    /\ Resumes(r, "loop")
    /\ \/ msg_i[r] > Len(Messages(r))
       \/ ~IsActive(active_simulations, r)
    /\ saw_inactive' = [saw_inactive EXCEPT ![r] =
                            @ \/ msg_i[r] <= Len(Messages(r))]
    /\ pc' = [pc EXCEPT ![r] = "completing"]
    /\ UNCHANGED << active_simulations, simulation_tasks, next_id, args, msg_i,
                    hop_i, must_cancel, events, cancels, stopped, error_at,
                    key_error >>
    /\ UNCHANGED << decided, slept, call, result, undo_redo_history >>
    /\ UNCHANGED << sending, manager_vars >>

\* the for loop of _run_simulation is over, by exhaustion or by break:
\* publish simulation_completed
RunComplete(r) ==
    /\ Resumes(r, "loop")
    /\ \/ msg_i[r] > Len(Messages(r))
       \/ ~IsActive(active_simulations, r)
    /\ saw_inactive' = [saw_inactive EXCEPT ![r] =
                            @ \/ msg_i[r] <= Len(Messages(r))]
    /\ Emit(r, RunEvent("simulation_completed"))
    /\ pc' = [pc EXCEPT ![r] = "completing"]
    /\ UNCHANGED << active_simulations, simulation_tasks, next_id, args, msg_i,
                    hop_i, must_cancel, cancels, stopped, error_at, key_error >>
    /\ UNCHANGED << decided, slept, call, result, undo_redo_history >>
    /\ UNCHANGED manager_vars

\* WalkerNoPath with the missing route raised as an exception, which
\* except Exception in _run_simulation reports as simulation_error
WalkerNoPathRaises(r) ==
    /\ Resumes(r, "loop")
    /\ msg_i[r] <= Len(Messages(r))
    /\ IsActive(active_simulations, r)
    /\ Paths(r) = << >>
    /\ Emit(r, RunEvent("simulation_error"))
    /\ error_at' = [error_at EXCEPT ![r] = msg_i[r]]
    /\ pc' = [pc EXCEPT ![r] = "erroring"]
    /\ UNCHANGED << active_simulations, simulation_tasks, next_id, args, msg_i,
                    hop_i, must_cancel, cancels, stopped, saw_inactive,
                    key_error >>
    /\ UNCHANGED << decided, slept, call, result, undo_redo_history >>
    /\ UNCHANGED manager_vars

\* next message of the for loop, run still active: _simulate_message up to
\* its first publish.  No route: packet_failed and return (then the gap sleep)
WalkerNoPath(r) ==
    /\ Resumes(r, "loop")
    /\ msg_i[r] <= Len(Messages(r))
    /\ IsActive(active_simulations, r)
    /\ Paths(r) = << >>
    /\ Emit(r, Event("packet_failed", Message(r).id, None, None, << >>, FALSE, 0))
    /\ MessageDone(r)
    /\ UNCHANGED << active_simulations, simulation_tasks, next_id, args, hop_i,
                    must_cancel, cancels, stopped, error_at, saw_inactive,
                    key_error >>
    /\ UNCHANGED << decided, slept, call, result, undo_redo_history >>
    /\ UNCHANGED manager_vars

\* WalkerSend without its publish
WalkerSendSilent(r) ==
    /\ Resumes(r, "loop")
    /\ msg_i[r] <= Len(Messages(r))
    /\ IsActive(active_simulations, r)
    /\ Paths(r) # << >>
    /\ pc' = [pc EXCEPT ![r] = "hop"]
    /\ hop_i' = [hop_i EXCEPT ![r] = 0]
    /\ UNCHANGED << active_simulations, simulation_tasks, next_id, args, msg_i,
                    must_cancel, events, cancels, stopped, error_at,
                    saw_inactive, key_error >>
    /\ UNCHANGED << decided, slept, call, result, undo_redo_history >>
    /\ UNCHANGED << sending, manager_vars >>

\* a route exists: publish packet_sent with the chosen path
WalkerSend(r) ==
    /\ Resumes(r, "loop")
    /\ msg_i[r] <= Len(Messages(r))
    /\ IsActive(active_simulations, r)
    /\ Paths(r) # << >>
    /\ Emit(r, Event("packet_sent", Message(r).id, None, None, ChosenPath(r),
                     FALSE, 0))
    /\ pc' = [pc EXCEPT ![r] = "hop"]
    /\ hop_i' = [hop_i EXCEPT ![r] = 0]
    /\ UNCHANGED << active_simulations, simulation_tasks, next_id, args, msg_i,
                    must_cancel, cancels, stopped, error_at, saw_inactive,
                    key_error >>
    /\ UNCHANGED << decided, slept, call, result, undo_redo_history >>
    /\ UNCHANGED manager_vars

\* the hop loop from index i on: hops whose edge info is missing are skipped
\* (continue) without suspending.  The result is the first index with edge
\* info, or len(chosen_path) - 1 when the range is exhausted
RECURSIVE NextHop(_, _, _)
NextHop(g, path, i) ==
    IF i > Len(path) - 2 THEN Len(path) - 1
    ELSE IF get_connection_info(g, path[i + 1], path[i + 2]) = << >>
         THEN NextHop(g, path, i + 1)
         ELSE i

\* the loop breaks at its first iteration when the run is no longer active
HopBreaksOn(r, chosen_path) ==
    /\ hop_i[r] <= Len(chosen_path) - 2
    /\ ~IsActive(active_simulations, r)

HopBreaks(r) == HopBreaksOn(r, ChosenPath(r))

\* the index i of the iteration the hop loop runs next on chosen_path
HopIndexOn(r, network, chosen_path) ==
    IF HopBreaksOn(r, chosen_path) THEN Len(chosen_path) - 1
    ELSE NextHop(network, chosen_path, hop_i[r])

HopIndex(r) == HopIndexOn(r, Network(r), ChosenPath(r))

\* for i in range(len(chosen_path) - 2): the last hop is left out
HasHopButLast(r) == HopIndex(r) <= Len(ChosenPath(r)) - 3

HasHopOn(r, network, chosen_path) ==
    HopIndexOn(r, network, chosen_path) <= Len(chosen_path) - 2

\* for i in range(len(chosen_path) - 1)
HasHop(r) == HasHopOn(r, Network(r), ChosenPath(r))

\* current_node = chosen_path[i]; next_node = chosen_path[i + 1]
NodeOfHop(r, network, chosen_path, offset) ==
    chosen_path[HopIndexOn(r, network, chosen_path) + offset]

CurrentNode(r) == NodeOfHop(r, Network(r), ChosenPath(r), 1)
NextNode(r) == NodeOfHop(r, Network(r), ChosenPath(r), 2)

\* connection_info.get("latency", settings.DEFAULT_PACKET_DELAY_MS), in ms
BaseDelayMs(r) ==
    LET info == get_connection_info(Network(r), CurrentNode(r), NextNode(r))[1]
    IN IF "latency" \in DOMAIN info THEN info.latency
       ELSE DEFAULT_PACKET_DELAY_MS

\* one call of the anomaly engine by the walker, and what it returned: fired
\* is the boolean result (for delay and wrong delivery: some rule fired),
\* value the number returned (the delay in ms, the node chosen or None)
Decision(kind, message_id, node, fired, value, raised) ==
    [kind |-> kind, message_id |-> message_id, node |-> node,
     fired |-> fired, value |-> value, raised |-> raised]

Decide(r, made) == decided' = [decided EXCEPT ![r] = @ \o made]

\* await asyncio.sleep(actual_delay / speed_multiplier) at the end of a hop:
\* the message, the node the hop leaves, and the delay in ms
Sleep(r, delay_ms) ==
    slept' = [slept EXCEPT ![r] =
                 Append(@, [message_id |-> Message(r).id,
                            node |-> CurrentNode(r), delay_ms |-> delay_ms])]

\* anomaly_engine.apply_packet_loss(message.id, current_node)
LossDecision(r, dl) ==
    Decision("packet_loss", Message(r).id, CurrentNode(r),
             apply_packet_loss(Rules(r), CurrentNode(r), dl), 0, FALSE)

\* anomaly_engine.apply_delay(message.id, current_node, base_delay * 1000)
DelayDecision(r, dd) ==
    LET delay == apply_delay(Rules(r), CurrentNode(r), BaseDelayMs(r), dd)
    IN Decision("delay", Message(r).id, CurrentNode(r),
                FirstFiring(Rules(r), "delay", CurrentNode(r), dd) # 0,
                IF delay.raised = "" THEN delay.value ELSE 0,
                delay.raised # "")

\* anomaly_engine.apply_corruption(message.id, current_node)
CorruptionDecision(r, dc) ==
    Decision("corruption", Message(r).id, CurrentNode(r),
             apply_corruption(Rules(r), CurrentNode(r), dc), 0, FALSE)

\* WalkerLost with continue in place of return
WalkerLostContinue(r) ==
    /\ Resumes(r, "hop")
    /\ HasHop(r)
    /\ \E dl \in DrawsFor(Rules(r), "packet_loss", CurrentNode(r)) :
          /\ apply_packet_loss(Rules(r), CurrentNode(r), dl)
          /\ Emit(r, Event("packet_lost", Message(r).id, CurrentNode(r), None,
                           << >>, FALSE, 0))
          /\ Decide(r, << LossDecision(r, dl) >>)
          /\ UNCHANGED slept
    /\ hop_i' = [hop_i EXCEPT ![r] = HopIndex(r) + 1]
    /\ UNCHANGED << active_simulations, simulation_tasks, next_id, args, pc,
                    msg_i, must_cancel, cancels, stopped, error_at,
                    saw_inactive, key_error >>
    /\ UNCHANGED query_vars
    /\ UNCHANGED manager_vars

\* packet loss at the current node: publish packet_lost and return
WalkerLost(r) ==
    /\ Resumes(r, "hop")
    /\ HasHop(r)
    /\ \E dl \in DrawsFor(Rules(r), "packet_loss", CurrentNode(r)) :
          /\ apply_packet_loss(Rules(r), CurrentNode(r), dl)
          /\ Emit(r, Event("packet_lost", Message(r).id, CurrentNode(r), None,
                           << >>, FALSE, 0))
          /\ Decide(r, << LossDecision(r, dl) >>)
          /\ UNCHANGED slept
    /\ MessageDone(r)
    /\ UNCHANGED << active_simulations, simulation_tasks, next_id, args, hop_i,
                    must_cancel, cancels, stopped, error_at, saw_inactive,
                    key_error >>
    /\ UNCHANGED query_vars
    /\ UNCHANGED manager_vars

\* WalkerRaises with the exception handled inside the for loop: the error is
\* published and the loop goes on with the next message
WalkerRaisesContinue(r) ==
    /\ Resumes(r, "hop")
    /\ HasHop(r)
    /\ \E dl \in DrawsFor(Rules(r), "packet_loss", CurrentNode(r)),
          dd \in DrawsFor(Rules(r), "delay", CurrentNode(r)) :
          /\ ~apply_packet_loss(Rules(r), CurrentNode(r), dl)
          /\ apply_delay(Rules(r), CurrentNode(r), BaseDelayMs(r), dd).raised # ""
          /\ Decide(r, << LossDecision(r, dl), DelayDecision(r, dd) >>)
          /\ UNCHANGED slept
    /\ Emit(r, RunEvent("simulation_error"))
    /\ error_at' = [error_at EXCEPT ![r] = msg_i[r]]
    /\ MessageDone(r)
    /\ UNCHANGED << active_simulations, simulation_tasks, next_id, args, hop_i,
                    must_cancel, cancels, stopped, saw_inactive, key_error >>
    /\ UNCHANGED query_vars
    /\ UNCHANGED manager_vars

\* no loss, and apply_delay raises: the exception leaves _simulate_message
\* and is caught by except Exception in _run_simulation, which publishes
\* simulation_error
WalkerRaises(r) ==
    /\ Resumes(r, "hop")
    /\ HasHop(r)
    /\ \E dl \in DrawsFor(Rules(r), "packet_loss", CurrentNode(r)),
          dd \in DrawsFor(Rules(r), "delay", CurrentNode(r)) :
          /\ ~apply_packet_loss(Rules(r), CurrentNode(r), dl)
          /\ apply_delay(Rules(r), CurrentNode(r), BaseDelayMs(r), dd).raised # ""
          /\ Decide(r, << LossDecision(r, dl), DelayDecision(r, dd) >>)
          /\ UNCHANGED slept
    /\ Emit(r, RunEvent("simulation_error"))
    /\ error_at' = [error_at EXCEPT ![r] = msg_i[r]]
    /\ pc' = [pc EXCEPT ![r] = "erroring"]
    /\ UNCHANGED << active_simulations, simulation_tasks, next_id, args, msg_i,
                    hop_i, must_cancel, cancels, stopped, saw_inactive,
                    key_error >>
    /\ UNCHANGED query_vars
    /\ UNCHANGED manager_vars

\* no loss: publish packet_arrived at the next node, then sleep the hop delay
WalkerArrive(r) ==
    /\ Resumes(r, "hop")
    /\ HasHop(r)
    /\ \E dl \in DrawsFor(Rules(r), "packet_loss", CurrentNode(r)),
          dd \in DrawsFor(Rules(r), "delay", CurrentNode(r)),
          dc \in DrawsFor(Rules(r), "corruption", CurrentNode(r)) :
          LET delay == apply_delay(Rules(r), CurrentNode(r), BaseDelayMs(r), dd)
          IN /\ ~apply_packet_loss(Rules(r), CurrentNode(r), dl)
             /\ delay.raised = ""
             /\ Emit(r, Event("packet_arrived", Message(r).id, NextNode(r),
                              CurrentNode(r), << >>,
                              apply_corruption(Rules(r), CurrentNode(r), dc),
                              delay.value))
             /\ Decide(r, << LossDecision(r, dl), DelayDecision(r, dd),
                             CorruptionDecision(r, dc) >>)
             /\ Sleep(r, delay.value)
    /\ hop_i' = [hop_i EXCEPT ![r] = HopIndex(r) + 1]
    /\ UNCHANGED << active_simulations, simulation_tasks, next_id, args, pc,
                    msg_i, must_cancel, cancels, stopped, error_at,
                    saw_inactive, key_error >>
    /\ UNCHANGED query_vars
    /\ UNCHANGED manager_vars

\* the test without its comparison with the destination
MisdeliversWheneverChosen(wrong_destination, destination) ==
    wrong_destination # None

\* if wrong_destination and wrong_destination != message.destination_node_id
Misdelivers(wrong_destination, destination) ==
    wrong_destination # None /\ wrong_destination # destination

\* the hop loop is over, by exhaustion or by break: wrong delivery is
\* decided at the last node of the path, then packet_misdelivered or
\* packet_delivered is published
WalkerDeliver(r) ==
    /\ Resumes(r, "hop")
    /\ ~HasHop(r)
    /\ saw_inactive' = [saw_inactive EXCEPT ![r] = @ \/ HopBreaks(r)]
    /\ LET path == ChosenPath(r)
           available_nodes == Network(r).nodes
           destination == Message(r).destination_node_id
       IN \E dw \in DrawsFor(Rules(r), "wrong_delivery", path[Len(path)]),
             choice \in 1..Len(available_nodes) :
             LET wrong_destination ==
                     apply_wrong_delivery(Rules(r), path[Len(path)],
                                          available_nodes, dw, choice)
             IN /\ Decide(r, << Decision("wrong_delivery", Message(r).id,
                                          path[Len(path)],
                                          wrong_destination # None,
                                          wrong_destination, FALSE) >>)
                /\ UNCHANGED slept
                /\ IF Misdelivers(wrong_destination, destination)
                   THEN Emit(r, Event("packet_misdelivered", Message(r).id,
                                      wrong_destination, None, << >>, FALSE, 0))
                   ELSE Emit(r, Event("packet_delivered", Message(r).id,
                                      destination, None, path, FALSE, 0))
    /\ MessageDone(r)
    /\ UNCHANGED << active_simulations, simulation_tasks, next_id, args, hop_i,
                    must_cancel, cancels, stopped, error_at, key_error >>
    /\ UNCHANGED query_vars
    /\ UNCHANGED manager_vars

\* finally: without the deletion from simulation_tasks
TeardownActiveOnly(r) ==
    /\ active_simulations' = DelIfPresent(active_simulations, r)
    /\ UNCHANGED << simulation_tasks, key_error >>

\* finally: with both del statements unguarded: del raises KeyError when the
\* key is gone
TeardownUnguarded(r) ==
    /\ active_simulations' = DictDel(active_simulations, r)
    /\ simulation_tasks' = DictDel(simulation_tasks, r)
    /\ key_error' = (key_error \/ r \notin DOMAIN active_simulations
                               \/ r \notin DOMAIN simulation_tasks)

\* finally: of _run_simulation: each entry is deleted if it is there, so no
\* del raises KeyError
Teardown(r) ==
    /\ active_simulations' = DelIfPresent(active_simulations, r)
    /\ simulation_tasks' = DelIfPresent(simulation_tasks, r)
    /\ key_error' = key_error

\* the publish of simulation_completed or simulation_error returned: the
\* try statement ends, finally runs, the task is over
RunFinish(r) ==
    /\ \/ Resumes(r, "completing")
       \/ Resumes(r, "erroring")
    /\ Teardown(r)
    /\ pc' = [pc EXCEPT ![r] = "done"]
    /\ UNCHANGED << next_id, args, msg_i, hop_i, must_cancel, events, cancels,
                    stopped, error_at, saw_inactive >>
    /\ UNCHANGED << decided, slept, call, result, undo_redo_history >>
    /\ UNCHANGED << sending, manager_vars >>

\* the loop resumes a task whose cancellation is pending by throwing
\* CancelledError into it.  A task that never ran ends without entering the
\* coroutine; otherwise the exception is raised at the await the task is
\* suspended in, except asyncio.CancelledError logs it, and finally runs.
\* CancelledError is no Exception: neither the publish nor except Exception
\* catches it
TaskCancelled(r) ==
    /\ must_cancel[r]
    /\ pc[r] \notin {"none", "done"}
    /\ IF pc[r] = "created"
       THEN UNCHANGED << active_simulations, simulation_tasks, key_error >>
       ELSE Teardown(r)
    /\ pc' = [pc EXCEPT ![r] = "done"]
    /\ must_cancel' = [must_cancel EXCEPT ![r] = FALSE]
    /\ UNCHANGED << next_id, args, msg_i, hop_i, events, cancels, stopped,
                    error_at, saw_inactive >>
    /\ UNCHANGED << decided, slept, call, result, undo_redo_history >>
    /\ sending' = [sending EXCEPT ![r] = << >>]
    /\ UNCHANGED manager_vars

TaskStep(r) ==
    \/ RunBegin(r)
    \/ RunComplete(r)
    \/ WalkerNoPath(r)
    \/ WalkerSend(r)
    \/ WalkerLost(r)
    \/ WalkerRaises(r)
    \/ WalkerArrive(r)
    \/ WalkerDeliver(r)
    \/ RunFinish(r)
    \/ TaskCancelled(r)

----------------------------------------------------------------------------
(* The event sink: ConnectionManager and the websocket handlers *)

\* list.remove(x): the first occurrence goes
RECURSIVE Remove(_, _)
Remove(list, x) ==
    IF list = << >> THEN << >>
    ELSE IF Head(list) = x THEN Tail(list)
    ELSE << Head(list) >> \o Remove(Tail(list), x)

\* ConnectionManager.connect, after accept: the session's list, a new one if
\* the session has no entry, gets the socket
connect(connections, websocket, session_id) ==
    IF session_id \in DOMAIN connections
    THEN DictSet(connections, session_id,
                 Append(connections[session_id], websocket))
    ELSE DictSet(connections, session_id, << websocket >>)

\* ConnectionManager.disconnect, on the dict and the generations: ValueError
\* is passed over; the entry of a list that became empty is deleted, and the
\* next entry of the session will hold another list object
disconnect(mgr, websocket, session_id) ==
    IF session_id \notin DOMAIN mgr.connections THEN mgr
    ELSE IF ~InSeq(websocket, mgr.connections[session_id]) THEN mgr
    ELSE LET rest == Remove(mgr.connections[session_id], websocket)
         IN IF rest = << >>
            THEN [connections |-> DictDel(mgr.connections, session_id),
                  generation |-> [mgr.generation EXCEPT ![session_id] = @ + 1]]
            ELSE [connections |-> DictSet(mgr.connections, session_id, rest),
                  generation |-> mgr.generation]

\* for connection in dead_connections: self.disconnect(connection, session_id)
RECURSIVE RemoveDead(_, _, _)
RemoveDead(mgr, dead, session_id) ==
    IF dead = << >> THEN mgr
    ELSE RemoveDead(disconnect(mgr, Head(dead), session_id), Tail(dead),
                    session_id)

Manager == [connections |-> active_connections, generation |-> generation]

\* a manager whose broadcast goes over the connections of both sessions
IteratedListOfAll(f) ==
    LET other == IF f.session_id = "s1" THEN "s2" ELSE "s1"
    IN IF f.session_id \in DOMAIN active_connections
          /\ generation[f.session_id] = f.list
       THEN active_connections[f.session_id]
            \o (IF other \in DOMAIN active_connections
                THEN active_connections[other] ELSE << >>)
       ELSE << >>

\* the list object a frame iterates: the one of the session's entry, or a
\* list whose entry was deleted, which is empty and stays so
IteratedList(f) ==
    IF f.session_id \in DOMAIN active_connections
       /\ generation[f.session_id] = f.list
    THEN active_connections[f.session_id]
    ELSE << >>

\* send_text succeeds on a connection that is open and raises otherwise
SendSucceeds(websocket) == sockets[websocket].state = "open"

\* the send_text a frame awaits returns or raises, and the loop goes on to
\* its next suspension: the connection goes to the sockets sent to or to
\* dead_connections; the iterator gives the element at its index in the
\* list as it is now and the coroutine is suspended in the send to it, or
\* the iterator is exhausted, the dead connections are removed and the
\* broadcast returns
SendStep(f) ==
    LET list == IteratedList(f)
        sent == IF SendSucceeds(f.cur) THEN Append(f.sent, f.cur) ELSE f.sent
        dead == IF SendSucceeds(f.cur) THEN f.dead ELSE Append(f.dead, f.cur)
    IN IF f.i < Len(list)
       THEN [frame |-> << [f EXCEPT !.i = @ + 1, !.cur = list[f.i + 1],
                                    !.sent = sent, !.dead = dead] >>,
             mgr |-> Manager]
       ELSE [frame |-> << >>,
             mgr |-> RemoveDead(Manager, dead, f.session_id)]

\* the broadcast a task awaits goes on
RunSend(r) ==
    /\ sending[r] # << >>
    /\ ~must_cancel[r]
    /\ LET out == SendStep(sending[r][1])
       IN /\ sending' = [sending EXCEPT ![r] = out.frame]
          /\ active_connections' = out.mgr.connections
          /\ generation' = out.mgr.generation
    /\ UNCHANGED << active_simulations, simulation_tasks, next_id, task_vars,
                    must_cancel, cancels, stopped, key_error, query_vars,
                    sockets, ws_sending >>

\* websocket_endpoint up to its first send: connect, then the broadcast of
\* connection_established
WsConnect(w, s) ==
    /\ sockets[w].state = "none"
    /\ sockets' = [sockets EXCEPT ![w] = [session_id |-> s, state |-> "open",
                                          handler |-> TRUE]]
    /\ active_connections' = connect(active_connections, w, s)
    /\ ws_sending' = [ws_sending EXCEPT ![w] =
            Frame(connect(active_connections, w, s), generation, s, None,
                  RunEvent("connection_established"))]
    /\ UNCHANGED << coordinator_vars, sending, generation, call, result, undo_redo_history >>

\* the broadcast a websocket handler awaits goes on
WsSend(w) ==
    /\ ws_sending[w] # << >>
    /\ LET out == SendStep(ws_sending[w][1])
       IN /\ ws_sending' = [ws_sending EXCEPT ![w] = out.frame]
          /\ active_connections' = out.mgr.connections
          /\ generation' = out.mgr.generation
    /\ UNCHANGED << coordinator_vars, sending, sockets, call, result, undo_redo_history >>

\* the handler is in its loop, awaiting receive_text.  Viewers send no
\* ping: the only messages handled are those that end the loop
Receiving(w) == sockets[w].handler /\ ws_sending[w] = << >>

\* the viewer's connection closes
WsClose(w) ==
    /\ sockets[w].state = "open"
    /\ sockets' = [sockets EXCEPT ![w].state = "closed"]
    /\ UNCHANGED << coordinator_vars, sending, active_connections, generation,
                    ws_sending, call, result, undo_redo_history >>

\* receive_text raises WebSocketDisconnect inside the loop's try:
\* WebSocketDisconnect is an Exception, so except Exception logs it and
\* breaks out of the loop, and the handler returns.  The outer
\* except WebSocketDisconnect, with its manager.disconnect, is not reached
WsReceiveDisconnect(w) ==
    /\ Receiving(w)
    /\ sockets[w].state = "closed"
    /\ sockets' = [sockets EXCEPT ![w].handler = FALSE]
    /\ UNCHANGED << coordinator_vars, sending, active_connections, generation,
                    ws_sending, call, result, undo_redo_history >>

\* handling a message raises another exception (a binary frame, JSON that
\* is no object): except Exception logs it and breaks out of the loop, the
\* handler returns and the server closes the connection
WsReceiveError(w) ==
    /\ Receiving(w)
    /\ sockets[w].state = "open"
    /\ sockets' = [sockets EXCEPT ![w].state = "closed", ![w].handler = FALSE]
    /\ UNCHANGED << coordinator_vars, sending, active_connections, generation,
                    ws_sending, call, result, undo_redo_history >>

\* the session in the path of the websocket a viewer opens: the viewers
\* watch the two sessions in turn
Watches(w) == IF w % 2 = 1 THEN "s1" ELSE "s2"

\* viewers of one session are interchangeable: they connect in the order of
\* their numbers
SinkConnect(w) ==
    /\ \A v \in Sockets :
          v < w /\ Watches(v) = Watches(w) => sockets[v].state # "none"
    /\ WsConnect(w, Watches(w))

\* one run, started while viewers come and go
SinkStart(q) ==
    /\ next_id = 0
    /\ StartSimulation(q)

SinkNext ==
    \/ \E q \in EndpointIds : SinkStart(q)
    \/ \E r \in RunIds : StopSimulation(r)
    \/ \E r \in RunIds : TaskStep(r)
    \/ \E r \in RunIds : RunSend(r)
    \/ \E w \in 1..MaxSockets : SinkConnect(w)
    \/ \E w \in 1..MaxSockets : WsSend(w)
    \/ \E w \in 1..MaxSockets : WsClose(w)
    \/ \E w \in 1..MaxSockets : WsReceiveDisconnect(w)
    \/ \E w \in 1..MaxSockets : WsReceiveError(w)

SinkSpec == Init /\ [][SinkNext]_vars

\* the session whose fan-out is examined
ViewedSession == "s1"

\* the viewers of the session are interchangeable: they connect in the
\* order of their numbers
ViewerConnect(w) ==
    /\ \A v \in 1..MaxViewers : v < w => sockets[v].state # "none"
    /\ WsConnect(w, ViewedSession)

\* the handlers of the viewers of one session alone: the events published
\* are the connection_established of each connect
ManagerNext ==
    \/ \E w \in 1..MaxViewers : ViewerConnect(w)
    \/ \E w \in 1..MaxViewers : WsSend(w)
    \/ \E w \in 1..MaxViewers : WsClose(w)
    \/ \E w \in 1..MaxViewers : WsReceiveDisconnect(w)
    \/ \E w \in 1..MaxViewers : WsReceiveError(w)

ManagerSpec == Init /\ [][ManagerNext]_vars

----------------------------------------------------------------------------
(* The engine alone *)

Next ==
    \/ \E q \in InterleavedIds : StartSimulation(q)
    \/ \E r \in RunIds : StopSimulation(r)
    \/ \E r \in RunIds : TaskStep(r)

Spec == Init /\ [][Next]_vars

\* The event loop runs every task that is ready: a task whose await has
\* returned, or whose cancellation is pending, takes its next step.  Every
\* publish and every pacing wait returns.
Fairness == \A r \in RunIds : WF_vars(TaskStep(r))

\* number of start requests accepted when the walks of one run are examined
WalkRuns == 1

\* a start request with any of the snapshots
WalkStart(q) ==
    /\ next_id < WalkRuns
    /\ StartSimulation(q)

WalkNext ==
    \/ \E q \in RequestIds : WalkStart(q)
    \/ \E r \in RunIds : StopSimulation(r)
    \/ \E r \in RunIds : TaskStep(r)

WalkSpec == Init /\ [][WalkNext]_vars

FairWalkSpec == WalkSpec /\ Fairness

----------------------------------------------------------------------------
(* Queries of the topology index and of the policy set, outside any run *)

engine_vars ==
    << active_simulations, simulation_tasks, next_id, args, pc, msg_i, hop_i,
       must_cancel, events, cancels, stopped, error_at, saw_inactive,
       key_error, decided, slept, sending, active_connections, generation,
       sockets,
       ws_sending >>

\* longest list of connections of a queried topology
MaxQueryConns == 2

\* the node lists of the queried topologies; 3 is no node of the second
QueryNodeLists == {<<1, 2, 3>>, <<1, 2>>}
QueryNodeIds == {1, 2, 3}
ConnectionStatuses == {"active", "inactive"}

Elems(seq) == {seq[i] : i \in 1..Len(seq)}

\* the lists of connections over the nodes: a connection joins two different
\* nodes, and no two connections join the same two nodes
QueryConnections(nodes) ==
    LET ends == {e \in Elems(nodes) \X Elems(nodes) : e[1] # e[2]}
        choices == ends \X ConnectionStatuses
        lists == UNION {[1..n -> choices] : n \in 0..MaxQueryConns}
        distinct(l) == \A i, j \in 1..Len(l) :
                          i # j => {l[i][1][1], l[i][1][2]}
                                     # {l[j][1][1], l[j][1][2]}
    IN {[i \in 1..Len(l) |-> Conn(i, l[i][1][1], l[i][1][2], 10, l[i][2])] :
           l \in {x \in lists : distinct(x)}}

PathCall(nodes, connections, source, target) ==
    [op |-> "paths", nodes |-> nodes, connections |-> connections,
     source |-> source, target |-> target]

\* every probability the schema accepts, in units of 1/DrawScale: 0.0 .. 1.0
Probabilities == P0..P1

FiresCall(p, draw) ==
    [op |-> "fires",
     anomaly |-> Rule(1, "packet_loss", None, None, p, NoParams, TRUE),
     draw |-> draw]

\* longest list of rules of a queried policy set
MaxQueryRules == 2

\* the lists of at most MaxQueryRules rules built from the descriptions in
\* S, each a tuple of kind, affected node, probability and parameters; the
\* id of a rule is its place in the list
RuleLists(S) ==
    {[i \in 1..Len(l) |->
         Rule(i, l[i][1], l[i][2], None, l[i][3], l[i][4], TRUE)] :
        l \in UNION {[1..n -> S] : n \in 0..MaxQueryRules}}

\* delay rules at any node or at node 1, firing on half of the draws or
\* always, with the three shapes of parameters; and one rule of another kind
DelayRuleChoices ==
    ({"delay"} \X {None, 1} \X {PHalf, P1} \X {1, 2, 3})
        \cup {<<"corruption", None, P1, 1>>}

Parameters(shape) ==
    IF shape = 1 THEN NoParams ELSE IF shape = 2 THEN Delay500 ELSE ParamsNull

DelayRuleLists ==
    {[i \in 1..Len(l) |-> [l[i] EXCEPT !.parameters = Parameters(@)]] :
        l \in RuleLists(DelayRuleChoices)}

DelayCall(rules, node, draws) ==
    [op |-> "delay", rules |-> rules, node |-> node, base_delay |-> 10,
     draws |-> draws]

\* rules of the four kinds at any node or at node 1, firing on half of the
\* draws
ScanRuleChoices ==
    {"packet_loss", "delay", "corruption", "wrong_delivery"}
        \X {None, 1} \X {PHalf} \X {NoParams}

ScanRuleLists == RuleLists(ScanRuleChoices)

\* loss rules at any node or at node 1 and rules of the two kinds the engine
\* has no scan for, naming no connection or connection 7, firing on half of
\* the draws
ConnectionRuleChoices ==
    ({"packet_loss"} \X {None, 1} \X {PHalf} \X {None, 7})
        \cup ({"out_of_order", "connection_loss"} \X {None} \X {PHalf}
                  \X {None, 7})

ConnectionRuleLists ==
    {[i \in 1..Len(l) |->
         [l[i] EXCEPT !.affected_connection_id = l[i].parameters,
                      !.parameters = NoParams]] :
        l \in RuleLists(ConnectionRuleChoices)}

ScanCall(rules, node, draws, choice) ==
    [op |-> "scan", rules |-> rules, node |-> node, base_delay |-> 10,
     draws |-> draws, available_nodes |-> <<1, 2>>, choice |-> choice]

\* the queries are drawn before any run is started
QueryInit ==
    /\ EngineInit
    /\ ManagerInit
    /\ HistoryEmpty
    /\ result = << >>
    /\ \/ \E m \in QueryNodeLists : \E c \in QueryConnections(m) :
             \E a \in QueryNodeIds, b \in QueryNodeIds :
                call = PathCall(m, c, a, b)
       \/ \E p \in Probabilities, d \in Draws : call = FiresCall(p, d)
       \/ \E l \in DelayRuleLists : \E d \in [1..Len(l) -> Draws] :
             \E n \in {1, 2} : call = DelayCall(l, n, d)
       \/ \E l \in ScanRuleLists \cup ConnectionRuleLists :
             \E d \in [1..Len(l) -> Draws] :
                \E n \in {1, 2}, c \in {1, 2} : call = ScanCall(l, n, d, c)

\* build the topology, then find_shortest_path, find_all_paths and
\* get_connection_info for the pair
PathQuery ==
    /\ call.op = "paths"
    /\ Len(result) = 0
    /\ LET g == build_from_session_data(call.nodes, call.connections)
       IN \E sp \in find_shortest_path(g, call.source, call.target),
             ap \in find_all_paths_outcomes(g, call.source, call.target) :
             result' = << [shortest |-> sp, all |-> ap,
                           info |-> get_connection_info(g, call.source,
                                                        call.target)] >>
    /\ UNCHANGED << engine_vars, call, undo_redo_history >>

\* one evaluation of a rule against a draw
FiresQuery ==
    /\ call.op = "fires"
    /\ Len(result) = 0
    /\ result' = << should_apply_anomaly(call.anomaly, call.draw) >>
    /\ UNCHANGED << engine_vars, call, undo_redo_history >>

\* a policy set of the rules, then apply_delay at the node
DelayQuery ==
    /\ call.op = "delay"
    /\ Len(result) = 0
    /\ result' = << apply_delay(AnomalyEngineInit(call.rules), call.node,
                                call.base_delay, call.draws) >>
    /\ UNCHANGED << engine_vars, call, undo_redo_history >>

\* the four decisions of a policy set at a node
Decisions(rules, node, base_delay, draws, available_nodes, choice) ==
    [loss |-> apply_packet_loss(rules, node, draws),
     delay |-> apply_delay(rules, node, base_delay, draws),
     corruption |-> apply_corruption(rules, node, draws),
     wrong |-> apply_wrong_delivery(rules, node, available_nodes, draws, choice)]

\* a policy set of the rules, then the four decisions at the node
ScanQuery ==
    /\ call.op = "scan"
    /\ Len(result) = 0
    /\ result' = << Decisions(AnomalyEngineInit(call.rules), call.node,
                              call.base_delay, call.draws,
                              call.available_nodes, call.choice) >>
    /\ UNCHANGED << engine_vars, call, undo_redo_history >>

QueryNext ==
    \/ PathQuery
    \/ FiresQuery
    \/ DelayQuery
    \/ ScanQuery

QuerySpec == QueryInit /\ [][QueryNext]_vars

----------------------------------------------------------------------------
(* The endpoints over the engine *)

\* runs started through the endpoint over the life of the process
ApiRuns == 1

SessionIds == {Requests[q].session_id : q \in RequestIds}

\* SimulationResponse
SimulationResponse(simulation_id) ==
    [status_code |-> 200, detail |-> "started", simulation_id |-> simulation_id]

\* POST /{session_id}/simulate.  The queries of the database are awaited,
\* but no task of the engine touches the database: the handler is taken in
\* one step, over rows that no other request changes meanwhile
StartRequest(c) ==
    /\ call' = c
    /\ UNCHANGED undo_redo_history
    /\ IF StartResponse(c).start = << >>
       THEN /\ result' = << StartResponse(c) >>
            /\ UNCHANGED engine_vars
       ELSE /\ next_id < ApiRuns
            /\ \E q \in EndpointIds :
                  /\ Requests[q] = StartResponse(c).start[1]
                  /\ EngineStart(q)
            /\ result' = << SimulationResponse(next_id') >>

\* the stop and status requests made of the endpoints
StopCall(session_id, simulation_id) ==
    [op |-> "stop", session_id |-> session_id, simulation_id |-> simulation_id]

StatusCall(session_id) == [op |-> "status", session_id |-> session_id]

\* POST /{session_id}/simulate/{simulation_id}/stop
StopRequest(c) ==
    /\ call' = c
    /\ UNCHANGED undo_redo_history
    /\ IF c.session_id \notin DOMAIN Database
       THEN /\ result' = << HTTPException(404, "Session not found") >>
            /\ UNCHANGED engine_vars
       ELSE /\ EngineStop(c.simulation_id)
            /\ result' = << [status_code |-> 200,
                             detail |-> "Simulation stopped successfully"] >>

\* the status endpoint reading the registry
\* simulation_engine.active_simulations: the runs flagged active
get_simulation_status(db, registry, session_id) ==
    IF session_id \notin DOMAIN db
    THEN HTTPException(404, "Session not found")
    ELSE LET active == {sim_id \in DOMAIN registry : registry[sim_id]}
         IN [session_id |-> session_id, active_simulations |-> active,
             total_active |-> Cardinality(active)]

\* GET /{session_id}/simulate/status
StatusRequest(c) ==
    /\ call' = c
    /\ UNCHANGED undo_redo_history
    /\ result' = << get_simulation_status(Database, active_simulations,
                                          c.session_id) >>
    /\ UNCHANGED engine_vars

\* the sessions named in stop and status requests: of a run, of no run, absent
CallerSessions == {"s1", "s2", "s9"}

ApiNext ==
    \/ \E i \in 1..Len(StartCalls) : StartRequest(StartCalls[i])
    \/ \E s \in CallerSessions, r \in RunIds : StopRequest(StopCall(s, r))
    \/ \E s \in CallerSessions : StatusRequest(StatusCall(s))
    \/ \E r \in RunIds : TaskStep(r)

ApiSpec == Init /\ [][ApiNext]_vars

----------------------------------------------------------------------------
(* The undo/redo endpoint over the history table *)

\* most rows of the history table
MaxHistory == 3

\* the sessions that have rows in the table
HistorySessions == {"s1", "s2"}

\* action_type of the row with the given id
ActionTypes == << "create_node", "create_connection", "update_node" >>

\* a row of undo_redo_history.  id is the autoincrement key; timestamp is
\* func.now() of the server at the insert, in the unit of its resolution
HistoryItem(id, session_id, timestamp, is_undone) ==
    [id |-> id, session_id |-> session_id,
     action_type |-> ActionTypes[((id - 1) % Len(ActionTypes)) + 1],
     timestamp |-> timestamp, is_undone |-> is_undone]

\* the tables of at most MaxHistory rows, in the order of their ids: a row
\* is inserted with is_undone False (the default of the column) and with
\* the timestamp of the row before it or a later one
HistoryTables ==
    LET rows(n) == [1..n -> HistorySessions \X (1..MaxHistory)]
        in_time(l) == /\ Len(l) > 0 => l[1][2] = 1
                      /\ \A i \in 1..(Len(l) - 1) :
                            l[i + 1][2] \in {l[i][2], l[i][2] + 1}
    IN {[i \in 1..Len(l) |-> HistoryItem(i, l[i][1], l[i][2], FALSE)] :
           l \in {x \in UNION {rows(n) : n \in 0..MaxHistory} : in_time(x)}}

\* UndoRedoResponse
UndoRedoResponse(success, action_performed, message) ==
    [status_code |-> 200, success |-> success,
     action_performed |-> action_performed, message |-> message]

\* select(UndoRedoHistory).where(session_id == ...).where(is_undone == ...)
\* .order_by(timestamp.desc()).limit(1): the ids of the rows the query can
\* return.  Among rows of the same timestamp the order is the database's
SelectLatest(history, session_id, is_undone) ==
    LET matching == {i \in 1..Len(history) :
                        /\ history[i].session_id = session_id
                        /\ history[i].is_undone = is_undone}
    IN {i \in matching :
           \A j \in matching : history[j].timestamp <= history[i].timestamp}

\* update(UndoRedoHistory).where(id == ...).values(is_undone=...)
UpdateIsUndone(history, id, is_undone) ==
    [history EXCEPT ![id].is_undone = is_undone]

\* handle_undo_redo: what the handler can leave in the table and answer.
\* request.action is "undo" or "redo" (the pattern of UndoRedoRequest)
handle_undo_redo(db, history, session_id, action) ==
    IF session_id \notin DOMAIN db
    THEN {[history |-> history,
           response |-> HTTPException(404, "Session not found")]}
    ELSE LET found == SelectLatest(history, session_id, action = "redo")
         IN IF found = {}
            THEN {[history |-> history,
                   response |-> UndoRedoResponse(FALSE, action,
                       IF action = "undo" THEN << "No actions to undo" >>
                       ELSE << "No actions to redo" >>)]}
            ELSE {[history |-> UpdateIsUndone(history, i, action = "undo"),
                   response |-> UndoRedoResponse(TRUE, action,
                       IF action = "undo"
                       THEN << "Undone action: ", history[i].action_type >>
                       ELSE << "Redone action: ", history[i].action_type >>)] :
                     i \in found}

UndoRedoCall(session_id, action) ==
    [op |-> "undo-redo", session_id |-> session_id, action |-> action]

\* POST /{session_id}/undo-redo.  The handler awaits the database between
\* its select and its update; requests are taken one at a time
UndoRedoRequest(c) ==
    /\ call' = c
    /\ \E out \in handle_undo_redo(Database, undo_redo_history, c.session_id,
                                   c.action) :
          /\ undo_redo_history' = out.history
          /\ result' = << out.response >>
    /\ UNCHANGED engine_vars

HistoryInit ==
    /\ EngineInit
    /\ ManagerInit
    /\ undo_redo_history \in HistoryTables
    /\ call = NoCall
    /\ result = << >>

\* the actions the pattern of UndoRedoRequest accepts
UndoRedoActions == {"undo", "redo"}

HistoryNext ==
    \E s \in CallerSessions, a \in UndoRedoActions :
        UndoRedoRequest(UndoRedoCall(s, a))

HistorySpec == HistoryInit /\ [][HistoryNext]_vars

----------------------------------------------------------------------------
(* Properties *)

Started(r) == pc[r] # "none"

\* the events a run has published for one message, in order
MessageEvents(r, id) == SelectSeq(events[r], LAMBDA e : e.message_id = id)

TerminalEvents(r, id) ==
    SelectSeq(events[r],
              LAMBDA e : e.message_id = id /\ e.event_type \in TerminalTypes)

HasEvent(r, type) == \E i \in 1..Len(events[r]) : events[r][i].event_type = type

\* the nodes joined to a node of S by active connections
RECURSIVE ReachFrom(_, _)
ReachFrom(g, S) ==
    LET T == S \cup {n \in DOMAIN g.adj :
                        \E m \in S : m \in DOMAIN g.adj /\ InSeq(n, g.adj[m])}
    IN IF T = S THEN S ELSE ReachFrom(g, T)

SameComponent(g, a, b) == a \in DOMAIN g.adj /\ b \in ReachFrom(g, {a})

EndpointsConnected(r, k) ==
    SameComponent(Network(r), Messages(r)[k].source_node_id,
                  Messages(r)[k].destination_node_id)

\* the walk of the k-th message of run r has returned
Walked(r, k) == Started(r) /\ msg_i[r] > k

\* the task of run r ran to its end without a stop and without an exception
RanToEnd(r) == pc[r] = "done" /\ ~stopped[r] /\ error_at[r] = 0

\* C1: a message whose endpoints share a connected component of the run's
\* active-connection graph gets exactly one terminal event from its walk:
\* no message ever has two, a walk that has returned has published one, and
\* a run that ends without a stop or an exception has walked every message.
C1_ExactlyOneTerminal ==
    \A r \in RunIds :
        Started(r) =>
            \A k \in 1..Len(Messages(r)) :
                LET n == Len(TerminalEvents(r, Messages(r)[k].id))
                IN /\ n <= 1
                   /\ EndpointsConnected(r, k) /\ (Walked(r, k) \/ RanToEnd(r))
                        => n = 1

\* a run ended normally having lost a routable message and nothing else
C1_Witness ==
    \E r \in RunIds :
        /\ RanToEnd(r)
        /\ args[r] = 2
        /\ EndpointsConnected(r, 1)
        /\ HasEvent(r, "packet_lost")
        /\ Len(TerminalEvents(r, 3)) = 1

\* sent, then arrivals, then one terminal event; packet_failed stands alone
InWalkOrder(s) ==
    \A i \in 1..Len(s) :
        /\ i = 1 => s[i].event_type \in {"packet_sent", "packet_failed"}
        /\ i > 1 => /\ s[1].event_type = "packet_sent"
                    /\ s[i].event_type \in
                          {"packet_arrived", "packet_delivered", "packet_lost",
                           "packet_misdelivered"}
        /\ s[i].event_type \in TerminalTypes => i = Len(s)

\* C2: the events of one message of one run are in strict order: first
\* packet_sent, then zero or more packet_arrived, then one terminal event,
\* nothing after the terminal event, no packet_arrived before packet_sent;
\* a packet_failed message has no other event.  A walk that has returned
\* ends with its terminal event.
C2_MessageEventOrder ==
    \A r \in RunIds :
        Started(r) =>
            \A k \in 1..Len(Messages(r)) :
                LET s == MessageEvents(r, Messages(r)[k].id)
                IN /\ InWalkOrder(s)
                   /\ Walked(r, k) =>
                        /\ s # << >>
                        /\ s[Len(s)].event_type \in TerminalTypes

\* a two-hop walk: sent, arrived, arrived, delivered
C2_Witness ==
    \E r \in RunIds :
        LET s == MessageEvents(r, 1)
        IN /\ args[r] = 1
           /\ Len(s) = 4
           /\ s[1].event_type = "packet_sent"
           /\ s[2].event_type = "packet_arrived"
           /\ s[3].event_type = "packet_arrived"
           /\ s[4].event_type = "packet_delivered"

LastEvent(r) == events[r][Len(events[r])]

\* C3: once stop has torn a run down, the run publishes nothing more: in
\* particular a stop between packet_sent for a message and that message's
\* terminal event is followed by no event for the message and by no event
\* of the run.
C3_NoEventAfterStop ==
    [][\A r \in RunIds : stopped[r] => events'[r] = events[r]]_vars

\* a run stopped in the middle of a walk whose task has since ended
C3_Witness ==
    \E r \in RunIds :
        /\ stopped[r]
        /\ pc[r] = "done"
        /\ events[r] # << >>
        /\ LastEvent(r).event_type \in {"packet_sent", "packet_arrived"}
        /\ TerminalEvents(r, LastEvent(r).message_id) = << >>

\* The check of the active flag before a message and before a hop never
\* finds the run inactive: a stop deletes the flag and cancels the task in
\* one atomic block, and the task is resumed with CancelledError.
CooperativeCheckNeverFails == \A r \in RunIds : ~saw_inactive[r]

\* C5: an exception raised while one message is walked does not abort the
\* later messages of the run: each of them still gets its terminal event.
C5_SiblingsStillWalked ==
    \A r \in RunIds :
        (error_at[r] > 0 /\ pc[r] = "done" /\ ~stopped[r]) =>
            \A k \in (error_at[r] + 1)..Len(Messages(r)) :
                Len(TerminalEvents(r, Messages(r)[k].id)) = 1

\* the place of a message in the message list of run r
Position(r, id) == CHOOSE k \in 1..Len(Messages(r)) : Messages(r)[k].id = id

\* C6: within one run simulation_started is the first event, the events
\* of the messages follow in the order of the message list with every event
\* of one message before any event of the next, and simulation_completed,
\* when published, is the last event; also while another run is in progress.
C6_SequentialWalks ==
    \A r \in RunIds :
        Started(r) =>
            LET s == events[r]
            IN \A i \in 1..Len(s) :
                  /\ (s[i].event_type = "simulation_started") <=> (i = 1)
                  /\ s[i].event_type = "simulation_completed" => i = Len(s)
                  /\ \A j \in (i + 1)..Len(s) :
                        (s[i].message_id # None /\ s[j].message_id # None) =>
                            Position(r, s[i].message_id)
                                <= Position(r, s[j].message_id)

\* a run that walked two messages and completed while another run is in the
\* middle of a walk
C6_Witness ==
    \E r, o \in RunIds :
        /\ r # o
        /\ pc[o] = "hop"
        /\ events[r] # << >>
        /\ LastEvent(r).event_type = "simulation_completed"
        /\ MessageEvents(r, 1) # << >>
        /\ MessageEvents(r, 2) # << >>

\* C7: stop is idempotent: on a run id that is not registered (unknown,
\* finished or stopped) it changes neither the registry nor any task, a
\* second stop changes nothing the first has not, and no task is cancelled
\* twice.
C7_StopIdempotent ==
    \A r \in RunIds :
        LET once == stop_simulation(Registry, r)
        IN /\ stop_simulation(once, r) = once
           /\ r \notin DOMAIN active_simulations => once = Registry
           /\ cancels[r] <= 1

\* one run already stopped, another already finished
C7_Witness ==
    \E r, o \in RunIds :
        /\ stopped[r] /\ pc[r] = "done" /\ cancels[r] = 1
        /\ RanToEnd(o)

\* C8: a run whose task has ended, or which was stopped, is in neither the
\* active-run map nor the task map, so status does not report it.
C8_NoDanglingEntry ==
    \A r \in RunIds :
        (pc[r] = "done" \/ stopped[r]) =>
            /\ r \notin DOMAIN active_simulations
            /\ r \notin DOMAIN simulation_tasks

\* a run stopped before its task ever ran, and a run ended by an exception
C8_Witness ==
    \E r, o \in RunIds :
        /\ stopped[r] /\ pc[r] = "done" /\ events[r] = << >>
        /\ error_at[o] > 0 /\ pc[o] = "done" /\ ~stopped[o]

CountEvents(r, type) ==
    Cardinality({i \in 1..Len(events[r]) : events[r][i].event_type = type})

ErrorSurfacedOnce(r) ==
    /\ CountEvents(r, "simulation_error") = IF error_at[r] > 0 THEN 1 ELSE 0
    /\ \A i \in 1..Len(events[r]) :
          events[r][i].event_type = "simulation_error" => i = Len(events[r])
    /\ ~(HasEvent(r, "simulation_completed") /\ HasEvent(r, "simulation_error"))

RunUntouched(o) ==
    /\ pc'[o] = pc[o]
    /\ events'[o] = events[o]
    /\ error_at'[o] = error_at[o]
    /\ must_cancel'[o] = must_cancel[o]
    /\ (o \in DOMAIN active_simulations') <=> (o \in DOMAIN active_simulations)
    /\ (o \in DOMAIN simulation_tasks') <=> (o \in DOMAIN simulation_tasks)

\* C9: an exception inside a run is published as exactly one
\* simulation_error, which is the last event of the run; no run publishes
\* both simulation_completed and simulation_error; and the step in which a
\* run fails changes nothing of any other run.
C9_ErrorSurfacedOnce ==
    [][/\ \A r \in RunIds : ErrorSurfacedOnce(r)'
       /\ \A r \in RunIds :
             error_at'[r] # error_at[r] =>
                 \A o \in RunIds \ {r} : RunUntouched(o)]_vars

\* a run ended by an exception while another run goes on walking
C9_Witness ==
    \E r, o \in RunIds :
        /\ error_at[r] > 0 /\ pc[r] = "done" /\ ~stopped[r]
        /\ LastEvent(r).event_type = "simulation_error"
        /\ pc[o] = "hop" /\ o \in DOMAIN active_simulations

\* C10: under every interleaving of start, stop and task steps the two
\* maps of the registry have the same keys, every run started and neither
\* finished nor stopped is registered as running, and no registry access
\* raises KeyError.
C10_RegistrySafe ==
    /\ DOMAIN active_simulations = DOMAIN simulation_tasks
    /\ \A r \in RunIds :
          (Started(r) /\ pc[r] # "done" /\ ~stopped[r]) =>
              IsActive(active_simulations, r)
    /\ ~key_error

\* a stop that raced with the run's own teardown (the task was suspended in
\* the publish of simulation_completed), with another run still registered
C10_Witness ==
    \E r, o \in RunIds :
        /\ stopped[r] /\ pc[r] = "done"
        /\ events[r] # << >>
        /\ LastEvent(r).event_type = "simulation_completed"
        /\ IsActive(active_simulations, o)

\* the task of run r has ended after publishing simulation_completed or
\* simulation_error, and the run is in neither map of the registry
RunEnded(r) ==
    /\ pc[r] = "done"
    /\ events[r] # << >>
    /\ LastEvent(r).event_type \in {"simulation_completed", "simulation_error"}
    /\ r \notin DOMAIN active_simulations
    /\ r \notin DOMAIN simulation_tasks

\* C11: every started run (its message list is finite) that is never
\* stopped eventually publishes simulation_completed or simulation_error as
\* its last event and is then in neither map of the registry, when every
\* publish and every pacing wait returns.
C11_RunEventuallyEnds ==
    \A r \in RunIds : Started(r) ~> (stopped[r] \/ RunEnded(r))

\* a run of three messages that was never stopped has completed and is
\* out of the registry
C11_Witness ==
    \E r \in RunIds :
        /\ RunEnded(r) /\ ~stopped[r]
        /\ Len(Messages(r)) = 3
        /\ LastEvent(r).event_type = "simulation_completed"

\* the snapshot of rules run r was started with
Snapshot(r) == Requests[args[r]]

NoActiveRules(r) ==
    \A i \in 1..Len(Snapshot(r).anomalies) : ~Snapshot(r).anomalies[i].is_active

\* the latency of the active connection that put the edge {a, b} in the graph
EdgeLatency(r, a, b) == Network(r).attr[{a, b}].latency

\* sent with the path, one arrival per successive node of the path, each
\* uncorrupted and after the latency of its connection, delivered with the path
CleanWalk(r, id, path) ==
    << Event("packet_sent", id, None, None, path, FALSE, 0) >>
    \o [i \in 1..(Len(path) - 1) |->
           Event("packet_arrived", id, path[i + 1], path[i], << >>, FALSE,
                 EdgeLatency(r, path[i], path[i + 1]))]
    \o << Event("packet_delivered", id, path[Len(path)], None, path, FALSE, 0) >>

\* C12: with no active anomaly rule, a message that has a route produces
\* exactly packet_sent carrying the chosen path, one packet_arrived for each
\* successive node of the path after the source, in path order, and
\* packet_delivered carrying the path; on A-B, B-C the message A to C is
\* walked along [A, B, C]: sent, arrived(B), arrived(C), delivered.
C12_CleanWalk ==
    \A r \in RunIds :
        (Started(r) /\ NoActiveRules(r)) =>
            /\ \A k \in 1..Len(Messages(r)) :
                  (Walked(r, k) /\ Routes[args[r]][k] # << >>) =>
                      /\ Routes[args[r]][k][1][Len(Routes[args[r]][k][1])]
                            = Messages(r)[k].destination_node_id
                      /\ MessageEvents(r, Messages(r)[k].id)
                            = CleanWalk(r, Messages(r)[k].id, Routes[args[r]][k][1])
            /\ (args[r] = 1 /\ Walked(r, 1)) =>
                  MessageEvents(r, 1)
                      = << Event("packet_sent", 1, None, None, <<1, 2, 3>>, FALSE, 0),
                           Event("packet_arrived", 1, 2, 1, << >>, FALSE, 10),
                           Event("packet_arrived", 1, 3, 2, << >>, FALSE, 10),
                           Event("packet_delivered", 1, 3, None, <<1, 2, 3>>, FALSE, 0) >>

\* the walk of A to C on the line A-B, B-C has returned, without rules
C12_Witness ==
    \E r \in RunIds :
        /\ args[r] = 1
        /\ NoActiveRules(r)
        /\ Walked(r, 1)
        /\ Routes[args[r]][1][1] = <<1, 2, 3>>
        /\ Len(MessageEvents(r, 1)) = 4

\* an active packet_loss rule of probability 1 in the snapshot of run r is
\* scoped to node n
CertainLossAt(r, n) ==
    \E i \in 1..Len(Snapshot(r).anomalies) :
        LET a == Snapshot(r).anomalies[i]
        IN /\ a.is_active
           /\ a.anomaly_type = "packet_loss"
           /\ a.affected_node_id = n
           /\ a.probability = P1

\* the hops (indices of their current node) of a path that leave a node
\* with a certain loss
LosingHops(r, path) ==
    {i \in 1..(Len(path) - 1) : CertainLossAt(r, path[i])}

FirstLosingHop(r, path) ==
    CHOOSE i \in LosingHops(r, path) : \A j \in LosingHops(r, path) : i <= j

\* C13: a packet_loss rule of probability 1 scoped to node n loses every
\* message whose chosen path leaves n on some hop: the walk ends with
\* packet_lost at n, reached by the arrivals before it, and never publishes
\* packet_delivered; on A-B, B-C with the rule at B the message A to C is
\* sent, arrives at B and is lost at B.
C13_CertainLoss ==
    \A r \in RunIds :
        Started(r) =>
            /\ \A k \in 1..Len(Messages(r)) :
                  LET id == Messages(r)[k].id
                      paths == Routes[args[r]][k]
                      s == MessageEvents(r, id)
                  IN (paths # << >> /\ LosingHops(r, paths[1]) # {}) =>
                        /\ \A i \in 1..Len(s) :
                              s[i].event_type # "packet_delivered"
                        /\ Walked(r, k) =>
                              /\ s[Len(s)].event_type = "packet_lost"
                              /\ s[Len(s)].node
                                    = paths[1][FirstLosingHop(r, paths[1])]
                              /\ Len(s) = FirstLosingHop(r, paths[1]) + 1
            /\ (args[r] = 4 /\ Walked(r, 1)) =>
                  MessageEvents(r, 6)
                      = << Event("packet_sent", 6, None, None, <<1, 2, 3>>, FALSE, 0),
                           Event("packet_arrived", 6, 2, 1, << >>, FALSE, 10),
                           Event("packet_lost", 6, 2, None, << >>, FALSE, 0) >>

\* with the rule at B, the message A to C and the message B to A were lost
\* at B and the message A to B, which leaves B on no hop, was delivered
C13_Witness ==
    \E r \in RunIds :
        /\ args[r] = 4
        /\ CertainLossAt(r, 2)
        /\ RanToEnd(r)
        /\ Len(MessageEvents(r, 6)) = 3
        /\ Len(MessageEvents(r, 7)) = 2
        /\ MessageEvents(r, 8)[Len(MessageEvents(r, 8))].event_type
              = "packet_delivered"

\* C14: a message without a route gets exactly one event from its walk,
\* packet_failed with the reason no path: no packet_sent precedes it and no
\* event of the message follows it; it is no run error (no simulation_error
\* is published for it), and the run goes on with the next message: once
\* packet_failed is published the loop is at the next message, and a run
\* that is not stopped walks every later message and completes.
C14_NoRouteIsAnEvent ==
    \A r \in RunIds :
        Started(r) =>
            \A k \in 1..Len(Messages(r)) :
                LET s == MessageEvents(r, Messages(r)[k].id)
                IN Routes[args[r]][k] = << >> =>
                      /\ Len(s) <= 1
                      /\ Walked(r, k) <=> Len(s) = 1
                      /\ Len(s) = 1 =>
                            /\ s[1].event_type = "packet_failed"
                            /\ Reason(s[1]) = "No path available"
                      /\ error_at[r] # k
                      /\ (Walked(r, k) /\ pc[r] = "done" /\ ~stopped[r]) =>
                            /\ LastEvent(r).event_type = "simulation_completed"
                            /\ \A j \in (k + 1)..Len(Messages(r)) :
                                  Len(TerminalEvents(r, Messages(r)[j].id)) = 1

\* the message to the isolated node D failed, the message after it was
\* delivered and the run completed
C14_Witness ==
    \E r \in RunIds :
        /\ args[r] = 5
        /\ Routes[args[r]][1] = << >>
        /\ RanToEnd(r)
        /\ Len(MessageEvents(r, 9)) = 1
        /\ MessageEvents(r, 10)[Len(MessageEvents(r, 10))].event_type
              = "packet_delivered"

ZeroActive(connections) ==
    \A i \in 1..Len(connections) : connections[i].status # "active"

PathQueryReturned == call.op = "paths" /\ Len(result) = 1

NoRouteAnswer ==
    /\ result[1].shortest = << >>
    /\ result[1].all = << >>
    /\ result[1].info = << >>

\* C15 as stated: on a topology with zero active connections the shortest
\* path is none, the simple paths are empty and the edge info is none for
\* any pair of nodes.
C15_NoRouteForAnyPair ==
    (PathQueryReturned /\ ZeroActive(call.connections)) => NoRouteAnswer

\* C15: on a topology with zero active connections the shortest path is
\* none and the simple paths are empty for any pair of different nodes, and
\* the edge info is none for any pair; the shortest path from a node of the
\* topology to itself is that node alone.
C15_NoRouteForDistinctPair ==
    (PathQueryReturned /\ ZeroActive(call.connections)) =>
        /\ call.source # call.target => NoRouteAnswer
        /\ result[1].info = << >>
        /\ (call.source = call.target /\ InSeq(call.source, call.nodes)) =>
              result[1].shortest = << << call.source >> >>

\* two nodes joined only by a cut connection were queried
C15_Witness ==
    /\ PathQueryReturned
    /\ call.connections # << >>
    /\ ZeroActive(call.connections)
    /\ call.source # call.target
    /\ \E i \in 1..Len(call.connections) :
          {call.connections[i].source_node_id,
           call.connections[i].destination_node_id} = {call.source, call.target}
    /\ NoRouteAnswer

\* C16: a rule fires exactly when the draw, uniform in [0, 1), is
\* strictly less than its probability: a rule of probability 0 never fires
\* and a rule of probability 1 always fires, whatever the draw.
C16_FiresIffDrawBelow ==
    (call.op = "fires" /\ Len(result) = 1) =>
        /\ result[1] <=> (call.draw < call.anomaly.probability)
        /\ call.anomaly.probability = P0 => ~result[1]
        /\ call.anomaly.probability = P1 => result[1]

\* a rule of probability 1 fired on the largest draw
C16_Witness ==
    /\ call.op = "fires"
    /\ Len(result) = 1
    /\ call.anomaly.probability = P1
    /\ call.draw = DrawScale - 1
    /\ result[1]

DelayQueryReturned == call.op = "delay" /\ Len(result) = 1

\* the delay rules of the call that match the node and fire on their draw
FiringDelayRules ==
    {i \in 1..Len(call.rules) :
        /\ call.rules[i].anomaly_type = "delay"
        /\ call.rules[i].affected_node_id \in {None, call.node}
        /\ call.draws[i] < call.rules[i].probability}

FirstFiringDelayRule ==
    CHOOSE i \in FiringDelayRules : \A j \in FiringDelayRules : i <= j

\* the additional_delay_ms a rule states, 1000 when it states none
StatedAdditionalDelay(anomaly) ==
    IF anomaly.parameters # << >>
       /\ "additional_delay_ms" \in DOMAIN anomaly.parameters[1]
    THEN anomaly.parameters[1]["additional_delay_ms"]
    ELSE 1000

\* C19: apply_delay returns the base delay when no matching delay rule
\* fires, and otherwise the base delay plus the additional_delay_ms
\* (default 1000) of the first rule, in insertion order, that matches and
\* fires: two additions are never summed and the rules after the first
\* firing one do not count.
C19_FirstFiringDelayRuleWins ==
    DelayQueryReturned =>
        /\ result[1].raised = ""
        /\ result[1].value =
              IF FiringDelayRules = {} THEN call.base_delay
              ELSE call.base_delay
                     + StatedAdditionalDelay(call.rules[FirstFiringDelayRule])

\* The same, for policy sets in which the first rule that matches and
\* fires has a dict of parameters
DelayOfRulesWithParameters ==
    (/\ DelayQueryReturned
     /\ FiringDelayRules # {} => call.rules[FirstFiringDelayRule].parameters # << >>)
        => C19_FirstFiringDelayRuleWins

\* two delay rules match and fire, 500 ms first and the default second: the
\* result is the base delay plus 500
DelayOfRulesWithParameters_Witness ==
    /\ DelayQueryReturned
    /\ Cardinality(FiringDelayRules) = 2
    /\ call.rules[1].parameters = Delay500
    /\ call.rules[2].parameters = NoParams
    /\ result[1].value = call.base_delay + 500

\* an active connection of the snapshot of run r joins a and b
ActiveConnectionJoins(r, a, b) ==
    \E i \in 1..Len(Snapshot(r).connections) :
        LET c == Snapshot(r).connections[i]
        IN /\ c.status = "active"
           /\ {c.source_node_id, c.destination_node_id} = {a, b}

\* C17: inactive connections take no part in routing: in every
\* packet_sent and packet_delivered event of a run, each two consecutive
\* nodes of the path are joined by a connection that is active in the
\* snapshot the run was started with.
C17_RoutesUseActiveConnections ==
    \A r \in RunIds :
        Started(r) =>
            \A i \in 1..Len(events[r]) :
                LET e == events[r][i]
                IN e.event_type \in {"packet_sent", "packet_delivered"} =>
                      \A j \in 1..(Len(e.path) - 1) :
                          ActiveConnectionJoins(r, e.path[j], e.path[j + 1])

\* A and C are joined directly by a cut connection, and the message from A
\* to C was delivered by way of B
C17_Witness ==
    \E r \in RunIds :
        /\ Started(r)
        /\ \E i \in 1..Len(Snapshot(r).connections) :
              LET c == Snapshot(r).connections[i]
              IN /\ c.status = "inactive"
                 /\ {c.source_node_id, c.destination_node_id} = {1, 3}
        /\ events[r] # << >>
        /\ \E i \in 1..Len(events[r]) :
              /\ events[r][i].event_type = "packet_delivered"
              /\ events[r][i].path = <<1, 2, 3>>

\* the snapshot of run r has an active rule of the kind that matches the
\* node and can fire
ActiveRuleFor(r, kind, node) ==
    \E i \in 1..Len(Snapshot(r).anomalies) :
        LET a == Snapshot(r).anomalies[i]
        IN /\ a.is_active
           /\ a.anomaly_type = kind
           /\ a.affected_node_id \in {None, node}
           /\ a.probability > P0

\* C18: the policy set of a run holds exactly the rules of its snapshot
\* whose active flag is true, and every loss, added delay, corruption flag,
\* misdelivery and rule failure of the run comes from an active rule: a
\* rule that is not active causes none, whatever its probability.
C18_OnlyActiveRulesAct ==
    \A r \in RunIds :
        Started(r) =>
            /\ \A i \in 1..Len(Rules(r)) : Rules(r)[i].is_active
            /\ \A i \in 1..Len(Snapshot(r).anomalies) :
                  Snapshot(r).anomalies[i].is_active
                      => InSeq(Snapshot(r).anomalies[i], Rules(r))
            /\ \A i \in 1..Len(events[r]) :
                  LET e == events[r][i]
                  IN /\ e.event_type = "packet_lost"
                          => ActiveRuleFor(r, "packet_loss", e.node)
                     /\ (e.event_type = "packet_arrived" /\ e.is_corrupted)
                          => ActiveRuleFor(r, "corruption", e.from)
                     /\ (/\ e.event_type = "packet_arrived"
                         /\ e.delay_ms # EdgeLatency(r, e.from, e.node))
                          => ActiveRuleFor(r, "delay", e.from)
                     /\ e.event_type = "packet_misdelivered"
                          => \E n \in Elems(Snapshot(r).nodes) :
                                ActiveRuleFor(r, "wrong_delivery", n)
                     /\ e.event_type = "simulation_error"
                          => \E n \in Elems(Snapshot(r).nodes) :
                                ActiveRuleFor(r, "delay", n)

\* a run whose snapshot has rules of the four kinds with probability 1, none
\* of them active, ended with its message delivered
C18_Witness ==
    \E r \in RunIds :
        /\ RanToEnd(r)
        /\ Rules(r) = << >>
        /\ \A kind \in {"packet_loss", "delay", "corruption", "wrong_delivery"} :
              \E i \in 1..Len(Snapshot(r).anomalies) :
                  /\ Snapshot(r).anomalies[i].anomaly_type = kind
                  /\ Snapshot(r).anomalies[i].probability = P1
                  /\ ~Snapshot(r).anomalies[i].is_active
        /\ HasEvent(r, "packet_delivered")

ScanQueryReturned == call.op = "scan" /\ Len(result) = 1

RuleKinds == {"packet_loss", "delay", "corruption", "wrong_delivery"}

\* the decision of one kind among the four
DecisionOf(decisions, kind) ==
    IF kind = "packet_loss" THEN << decisions.loss >>
    ELSE IF kind = "delay" THEN << decisions.delay >>
    ELSE IF kind = "corruption" THEN << decisions.corruption >>
    ELSE << decisions.wrong >>

\* the decision of the kind is taken against the packet: a loss, a delay
\* above the base delay, a corruption, a wrong destination
Affected(decisions, kind) ==
    IF kind = "packet_loss" THEN decisions.loss
    ELSE IF kind = "delay" THEN decisions.delay.value # call.base_delay
    ELSE IF kind = "corruption" THEN decisions.corruption
    ELSE decisions.wrong # None

\* the decisions of the call with rule i given probability p and draw d
DecisionsWith(i, p, d) ==
    Decisions([call.rules EXCEPT ![i].probability = p], call.node,
              call.base_delay, [call.draws EXCEPT ![i] = d],
              call.available_nodes, call.choice)

\* C20: the scope of a rule is respected: a rule whose affected node is n
\* has no influence on a decision taken at another node, and a rule of one
\* kind has none on a decision of another kind (the decision is the same
\* whatever the probability and the draw of the rule); a rule with neither
\* an affected node nor an affected connection that fires decides the
\* decision of its kind at whatever node it is taken, and a rule with an
\* affected node does so at that node.
C20_RuleScopeRespected ==
    ScanQueryReturned =>
        \A i \in 1..Len(call.rules) : \A kind \in RuleKinds :
            LET a == call.rules[i]
                at_node == a.affected_node_id \in {None, call.node}
            IN /\ (a.anomaly_type # kind \/ ~at_node) =>
                     \A p \in Probabilities, d \in Draws :
                         DecisionOf(DecisionsWith(i, p, d), kind)
                             = DecisionOf(result[1], kind)
               /\ (/\ a.anomaly_type = kind
                   /\ at_node
                   /\ call.draws[i] < a.probability) =>
                     Affected(result[1], kind)

\* a loss rule at node 1 and a corruption rule without a node, both firing,
\* queried at node 2: no loss, and a corruption
C20_Witness ==
    /\ ScanQueryReturned
    /\ call.node = 2
    /\ Len(call.rules) = 2
    /\ call.rules[1].anomaly_type = "packet_loss"
    /\ call.rules[1].affected_node_id = 1
    /\ call.rules[2].anomaly_type = "corruption"
    /\ call.rules[2].affected_node_id = None
    /\ \A i \in 1..2 : call.draws[i] < call.rules[i].probability
    /\ ~result[1].loss
    /\ result[1].corruption

-----------------------------------------------------------------------------
(* Wrong delivery *)

\* the calls of one kind the anomaly engine got for a message of run r
DecisionsOf(r, id, kind) ==
    SelectSeq(decided[r], LAMBDA d : d.message_id = id /\ d.kind = kind)

\* the positions in the log of run r of the calls made for a message
DecisionIndexes(r, id) ==
    {i \in 1..Len(decided[r]) : decided[r][i].message_id = id}

EventsOfType(r, id, type) ==
    SelectSeq(events[r], LAMBDA e : e.message_id = id /\ e.event_type = type)

\* the hops of a path that have edge info in the graph of run r
HopsWithInfo(r, path) ==
    {i \in 1..(Len(path) - 1) :
        get_connection_info(Network(r), path[i], path[i + 1]) # << >>}

\* C21: after all hops the walker evaluates wrong delivery once, at the last
\* node of the chosen path, over all node ids of the topology; it publishes
\* packet_misdelivered exactly when the evaluation returns a node different
\* from the intended destination and packet_delivered otherwise; the actual
\* destination of packet_misdelivered is a node of the run's topology and
\* never the intended destination.
C21_WrongDeliveryAfterAllHops ==
    \A r \in RunIds :
        Started(r) =>
            \A k \in 1..Len(Messages(r)) :
                LET id == Messages(r)[k].id
                    destination == Messages(r)[k].destination_node_id
                    path == Routes[args[r]][k][1]
                    wrong == DecisionsOf(r, id, "wrong_delivery")
                    misdelivered == EventsOfType(r, id, "packet_misdelivered")
                    delivered == EventsOfType(r, id, "packet_delivered")
                IN /\ Len(wrong) <= 1
                   /\ Len(misdelivered) + Len(delivered) = Len(wrong)
                   /\ Len(wrong) = 1 =>
                        /\ wrong[1].node = path[Len(path)]
                        /\ wrong[1].value \in Elems(Network(r).nodes) \cup {None}
                        \* the evaluation is the last call made for the message
                        /\ \A i \in DecisionIndexes(r, id) :
                              decided[r][i].kind = "wrong_delivery"
                                 <=> i = Len(decided[r])
                                        \/ decided[r][i + 1].message_id # id
                        \* every hop has been walked before
                        /\ ~saw_inactive[r] =>
                              Len(EventsOfType(r, id, "packet_arrived"))
                                 = Cardinality(HopsWithInfo(r, path))
                        /\ Len(misdelivered) = 1
                              <=> wrong[1].value \notin {None, destination}
                        /\ Len(misdelivered) = 1 =>
                              misdelivered[1].node = wrong[1].value
                        /\ Len(delivered) = 1 =>
                              /\ delivered[1].node = destination
                              /\ delivered[1].path = path
                   /\ \A i \in 1..Len(misdelivered) :
                        /\ misdelivered[i].node \in Elems(Network(r).nodes)
                        /\ misdelivered[i].node # destination

\* a wrong-delivery rule fired at the last node and chose the destination
\* itself: the message was delivered
C21_Witness ==
    \E r \in RunIds :
        /\ Started(r)
        /\ \E k \in 1..Len(Messages(r)) :
              LET wrong == DecisionsOf(r, Messages(r)[k].id, "wrong_delivery")
              IN /\ Len(wrong) = 1
                 /\ wrong[1].fired
                 /\ wrong[1].value = Messages(r)[k].destination_node_id
                 /\ Len(EventsOfType(r, Messages(r)[k].id, "packet_delivered")) = 1

-----------------------------------------------------------------------------
(* Start and status *)

\* the step is a return of start_simulation with run id r
StartReturns(r) == next_id' = r /\ next_id = r - 1

\* C22: start returns the run id at once: when it returns the run is
\* registered as running (in the registry and in status), no event of the
\* run has been published and no message has been walked; simulation_started
\* is published only by the background task, after start has returned.
C22_StartReturnsBeforeAnyEvent ==
    [][\A r \in RunIds :
          /\ StartReturns(r) =>
                /\ ~Started(r)
                /\ pc'[r] = "created"
                /\ IsActive(active_simulations', r)
                /\ r \in DOMAIN simulation_tasks'
                /\ r \in get_simulation_status(Database, active_simulations',
                                                Requests[args'[r]].session_id)
                             .active_simulations
                /\ events'[r] = << >>
                /\ msg_i'[r] = 0
                /\ decided'[r] = << >>
          /\ (~HasEvent(r, "simulation_started")
                 /\ HasEvent(r, "simulation_started")') =>
                /\ pc[r] = "created"
                /\ ~StartReturns(r)
                /\ events[r] = << >>]_vars

\* start has returned and the task of the run has not taken a step yet,
\* while another run is already walking
C22_Witness ==
    \E r, o \in RunIds :
        /\ pc[r] = "created"
        /\ IsActive(active_simulations, r)
        /\ events[r] = << >>
        /\ pc[o] = "hop"

-----------------------------------------------------------------------------
(* The start endpoint *)

\* an endpoint has answered a request in this step
EndpointAnswers == call' # call \/ result' # result

\* a start request for a session that has no nodes, or no active
\* connection, or that asks for a message id that is no message of the session
InvalidStart(c) ==
    /\ c.op = "start"
    /\ c.session_id \in DOMAIN Database
    /\ LET session == Database[c.session_id]
           message_ids == c.simulation_request.message_ids
       IN \/ Len(session.nodes) = 0
          \/ \A i \in 1..Len(session.connections) :
                session.connections[i].status # "active"
          \/ \E i \in 1..Len(message_ids) :
                \A k \in 1..Len(session.messages) :
                    session.messages[k].id # message_ids[i]

\* C23: an invalid start request (no nodes in the session, no active
\* connection in the session, or a requested message id that is not a
\* message of the session) is rejected at the endpoint: the engine's start is
\* not called, no run is registered and no event is published.
C23_InvalidStartRejected ==
    [][(EndpointAnswers /\ InvalidStart(call')) =>
          /\ result'[1].status_code = 400
          /\ next_id' = next_id
          /\ active_simulations' = active_simulations
          /\ simulation_tasks' = simulation_tasks
          /\ events' = events
          /\ UNCHANGED engine_vars]_vars

\* a request for a session whose only connection is cut was rejected while
\* a run started earlier is walking
C23_Witness ==
    /\ InvalidStart(call)
    /\ call.session_id = "s4"
    /\ result # << >>
    /\ result[1].status_code = 400
    /\ pc[1] = "hop"

-----------------------------------------------------------------------------
(* The status endpoint *)

\* the session a run was started for
OwningSession(r) == Requests[args[r]].session_id

\* the status endpoint has answered for a session that exists
StatusAnswers ==
    /\ EndpointAnswers
    /\ call'.op = "status"
    /\ call'.session_id \in DOMAIN Database

\* C24: the status operation queried for session S reports the active
\* simulations of S: a run is in the answer for S exactly when it is running
\* and its owning session is S; a run started for another session is never
\* listed under S.
C24_StatusListsOwnRuns ==
    [][StatusAnswers =>
          result'[1].active_simulations
             = {r \in RunIds : /\ IsActive(active_simulations', r)
                               /\ OwningSession(r)' = call'.session_id}]_vars

\* what the endpoint answers, whatever the session asked for: the runs
\* flagged active in the registry, of every session
StatusListsEveryRunningRun ==
    [][StatusAnswers =>
          result'[1].active_simulations
             = {r \in RunIds : IsActive(active_simulations', r)}]_vars

-----------------------------------------------------------------------------
(* Ownership of the topology and of the policy set *)

\* the graph and the policy set built from the snapshots of run r alone:
\* build_from_session_data and AnomalyEngineInit of the request of the run
OwnGraph(r) == Networks[args[r]]

OwnRules(r) == AnomalyEngines[args[r]]

\* the paths found in the graph of run r for its message of that id
OwnPaths(r, id) ==
    Routes[args[r]][CHOOSE k \in 1..Len(Messages(r)) : Messages(r)[k].id = id]

\* the latencies of the edges of a node in a graph
LatenciesAt(g, node) ==
    {g.attr[e].latency : e \in {e \in DOMAIN g.attr : node \in e}}

\* what a call of the anomaly engine can return, whatever is drawn, when it
\* is answered from the snapshots of run r alone
OwnDecisions(r, kind, id, node) ==
    LET rules == OwnRules(r)
        g == OwnGraph(r)
    IN IF kind = "packet_loss"
       THEN {Decision(kind, id, node, apply_packet_loss(rules, node, d), 0, FALSE) :
                d \in DrawsFor(rules, kind, node)}
       ELSE IF kind = "corruption"
       THEN {Decision(kind, id, node, apply_corruption(rules, node, d), 0, FALSE) :
                d \in DrawsFor(rules, kind, node)}
       ELSE IF kind = "delay"
       THEN {LET delay == apply_delay(rules, node, base, d)
             IN Decision(kind, id, node, FirstFiring(rules, kind, node, d) # 0,
                         IF delay.raised = "" THEN delay.value ELSE 0,
                         delay.raised # "") :
                d \in DrawsFor(rules, kind, node), base \in LatenciesAt(g, node)}
       ELSE {LET wrong == apply_wrong_delivery(rules, node, g.nodes, d, choice)
             IN Decision(kind, id, node, wrong # None, wrong, FALSE) :
                d \in DrawsFor(rules, kind, node), choice \in 1..Len(g.nodes)}

\* C25: the topology and the policy set are built for each run and never
\* shared: when runs with different snapshots are started, one after the
\* other or interleaved, every path chosen and every anomaly decision of a
\* run depends only on the snapshots passed to the start of that run.
C25_RunsShareNothing ==
    \A r \in RunIds :
        Started(r) =>
            /\ \A i \in 1..Len(events[r]) :
                  events[r][i].event_type = "packet_sent" =>
                      events[r][i].path = OwnPaths(r, events[r][i].message_id)[1]
            /\ \A i \in 1..Len(decided[r]) :
                  decided[r][i] \in OwnDecisions(r, decided[r][i].kind,
                                                 decided[r][i].message_id,
                                                 decided[r][i].node)

\* two runs with different topologies and different rules are walking at
\* the same time, and the policy set of the later one has been consulted
C25_Witness ==
    \E r, o \in RunIds :
        /\ r < o
        /\ pc[r] = "hop"
        /\ pc[o] = "hop"
        /\ Snapshot(r).nodes # Snapshot(o).nodes
        /\ Snapshot(r).anomalies # Snapshot(o).anomalies
        /\ decided[r] # << >>
        /\ decided[o] # << >>

----------------------------------------------------------------------------
(* The event sink is keyed by session *)

\* the viewers an event of run r, still being broadcast, was sent to
DeliveredTo(r) ==
    IF sending[r] = << >> THEN {}
    ELSE {sending[r][1].sent[k] : k \in 1..Len(sending[r][1].sent)}

\* C26: every event of a run is published under the session id the run was
\* started for, and the broadcast of it sends it to viewers registered for
\* that session only, never to a viewer of another session: neither the
\* sends that returned nor the send it awaits
C26_EventsReachOwnSessionOnly ==
    \A r \in RunIds :
        sending[r] # << >> =>
            /\ sending[r][1].run = r
            /\ sending[r][1].session_id = OwningSession(r)
            /\ sending[r][1].event = events[r][Len(events[r])]
            /\ sockets[sending[r][1].cur].session_id = OwningSession(r)
            /\ \A w \in DeliveredTo(r) :
                   sockets[w].session_id = OwningSession(r)

\* an event of a run is being sent to an open viewer of its session, the
\* last of the list, and a viewer of the other session is connected and open
C26_Witness ==
    \E r \in RunIds, w \in Sockets, v \in Sockets :
        /\ sending[r] # << >>
        /\ sending[r][1].cur = w
        /\ sockets[w].state = "open"
        /\ sending[r][1].i = Len(IteratedList(sending[r][1]))
        /\ sockets[v].state = "open"
        /\ sockets[v].session_id # OwningSession(r)
        /\ sockets[v].session_id \in DOMAIN active_connections
        /\ InSeq(v, active_connections[sockets[v].session_id])

----------------------------------------------------------------------------
(* The route the walker takes *)

\* the fewest edges of a way from a node of S to b over the edges of g, n
\* edges having been taken to reach S; -1 when none leads there
RECURSIVE HopsFrom(_, _, _, _)
HopsFrom(g, S, b, n) ==
    IF b \in S THEN n
    ELSE LET T == S \cup {x \in DOMAIN g.adj :
                            \E m \in S : m \in DOMAIN g.adj /\ InSeq(x, g.adj[m])}
         IN IF T = S THEN -1 ELSE HopsFrom(g, T, b, n + 1)

\* a path of g from a to b that visits no node twice
IsSimplePath(g, p, a, b) ==
    /\ Len(p) >= 1
    /\ p[1] = a
    /\ p[Len(p)] = b
    /\ \A i, j \in 1..Len(p) : i # j => p[i] # p[j]
    /\ \A i \in 1..(Len(p) - 1) : has_edge(g, p[i], p[i + 1])

\* the index, in the messages of run r, of the message with the id
IndexOfMessage(r, id) ==
    CHOOSE k \in 1..Len(Messages(r)) : Messages(r)[k].id = id

\* C27: the path of every packet_sent is the first path of the path query,
\* which returns at most MaxPaths simple paths from the message's source to
\* its destination, each of at most PathCutoff edges, in ascending order of
\* length; the first has the fewest edges any path between the two has
C27_WalkerTakesShortestPath ==
    \A r \in RunIds : \A i \in 1..Len(events[r]) :
        events[r][i].event_type = "packet_sent" =>
            LET k == IndexOfMessage(r, events[r][i].message_id)
                a == Messages(r)[k].source_node_id
                b == Messages(r)[k].destination_node_id
                g == Networks[args[r]]
                paths == Routes[args[r]][k]
            IN /\ Len(paths) >= 1
               /\ Len(paths) <= MaxPaths
               /\ \A n \in 1..Len(paths) :
                      /\ IsSimplePath(g, paths[n], a, b)
                      /\ Len(paths[n]) - 1 <= PathCutoff
                      /\ n > 1 => Len(paths[n - 1]) <= Len(paths[n])
               /\ events[r][i].path = paths[1]
               /\ Len(paths[1]) - 1 = HopsFrom(g, {a}, b, 0)

\* a message was sent along its shortest route although more simple paths
\* join its endpoints than the query returns, and the search found a longer
\* one first
C27_Witness ==
    \E r \in RunIds : \E i \in 1..Len(events[r]) :
        /\ events[r][i].event_type = "packet_sent"
        /\ LET k == IndexOfMessage(r, events[r][i].message_id)
               all == all_simple_paths(Networks[args[r]],
                                       Messages(r)[k].source_node_id,
                                       Messages(r)[k].destination_node_id,
                                       PathCutoff).paths
           IN /\ Len(all) > MaxPaths
              /\ Len(all[1]) > Len(events[r][i].path)

----------------------------------------------------------------------------
(* Loss on a hop *)

\* the k-th call of the anomaly engine by run r was a loss decision that fired
LossFiredAt(r, k) == decided[r][k].kind = "packet_loss" /\ decided[r][k].fired

\* C28: on every hop the loss decision at the current node comes first.  An
\* arrival is published only for a hop whose loss decision did not fire; a
\* loss decision that fired is the last call of the anomaly engine for its
\* message (no delay or corruption decision for the hop, no wrong delivery),
\* its message has packet_lost with the current node as its last event and
\* no packet_arrived from that node, and no hop delay was waited there
C28_LossEndsTheWalk ==
    \A r \in RunIds :
        /\ \A i \in 1..Len(events[r]) :
              events[r][i].event_type = "packet_arrived" =>
                  \E k \in 1..Len(decided[r]) :
                      /\ decided[r][k].kind = "packet_loss"
                      /\ decided[r][k].message_id = events[r][i].message_id
                      /\ decided[r][k].node = events[r][i].from
                      /\ ~decided[r][k].fired
        /\ \A k \in 1..Len(decided[r]) :
              LossFiredAt(r, k) =>
                  LET id == decided[r][k].message_id
                      current == decided[r][k].node
                      published == MessageEvents(r, id)
                  IN /\ \A j \in (k + 1)..Len(decided[r]) :
                            decided[r][j].message_id # id
                     /\ \A j \in 1..Len(decided[r]) :
                            /\ decided[r][j].message_id = id
                            /\ decided[r][j].node = current
                            => decided[r][j].kind = "packet_loss"
                     /\ DecisionsOf(r, id, "wrong_delivery") = << >>
                     /\ published # << >>
                     /\ published[Len(published)].event_type = "packet_lost"
                     /\ published[Len(published)].node = current
                     /\ Len(EventsOfType(r, id, "packet_lost")) = 1
                     /\ \A i \in 1..Len(published) :
                            published[i].event_type = "packet_arrived"
                            => published[i].from # current
                     /\ \A i \in 1..Len(slept[r]) :
                            slept[r][i].message_id = id
                            => slept[r][i].node # current

\* a message arrived at a node, its walker waited the hop delay, and on the
\* next hop the loss decision at that node fired
C28_Witness ==
    \E r \in RunIds : \E k \in 1..Len(decided[r]) :
        /\ LossFiredAt(r, k)
        /\ \E i \in 1..Len(events[r]) :
              /\ events[r][i].event_type = "packet_arrived"
              /\ events[r][i].message_id = decided[r][k].message_id
              /\ events[r][i].node = decided[r][k].node
        /\ \E i \in 1..Len(slept[r]) :
              slept[r][i].message_id = decided[r][k].message_id

----------------------------------------------------------------------------
(* The missing-edge skip *)

\* every hop of every path the path query returned for a run has edge info
\* in the graph of the run: the continue of the hop loop is never taken
SkipNeverTaken ==
    \A r \in RunIds :
        Started(r) =>
            \A k \in 1..Len(Messages(r)) :
                \A n \in 1..Len(Routes[args[r]][k]) :
                    LET path == Routes[args[r]][k][n]
                    IN HopsWithInfo(r, path) = 1..(Len(path) - 1)

----------------------------------------------------------------------------
(* Messages that name a node the run does not have *)

\* the k-th message of run r names, as source or as destination, a node
\* that is not in the node list the run was started with
NamesAbsentNode(r, k) ==
    \/ Messages(r)[k].source_node_id \notin Elems(Snapshot(r).nodes)
    \/ Messages(r)[k].destination_node_id \notin Elems(Snapshot(r).nodes)

\* C30: for a message that names a node absent from the node list of its
\* run, find_shortest_path returns None and find_all_paths the empty list;
\* the only event the walker ever publishes for it is packet_failed, which
\* it has published once the walk has returned, and no exception is raised
\* while it is walked
C30_AbsentNodeIsNoRoute ==
    \A r \in RunIds :
        Started(r) =>
            \A k \in 1..Len(Messages(r)) :
                NamesAbsentNode(r, k) =>
                    LET a == Messages(r)[k].source_node_id
                        b == Messages(r)[k].destination_node_id
                        published == MessageEvents(r, Messages(r)[k].id)
                    IN /\ find_shortest_path(Network(r), a, b) = {<< >>}
                       /\ find_all_paths_outcomes(Network(r), a, b) = {<< >>}
                       /\ Routes[args[r]][k] = << >>
                       /\ Len(published) <= 1
                       /\ \A i \in 1..Len(published) :
                              published[i].event_type = "packet_failed"
                       /\ Walked(r, k) => Len(published) = 1
                       /\ error_at[r] # k

\* a run has ended normally after packet_failed for a message whose
\* destination is absent, for one whose source is absent, and a delivery
C30_Witness ==
    \E r \in RunIds :
        /\ RanToEnd(r)
        /\ HasEvent(r, "simulation_completed")
        /\ HasEvent(r, "packet_delivered")
        /\ \E k \in 1..Len(Messages(r)) :
              /\ Messages(r)[k].source_node_id \notin Elems(Snapshot(r).nodes)
              /\ Messages(r)[k].destination_node_id \in Elems(Snapshot(r).nodes)
              /\ Len(EventsOfType(r, Messages(r)[k].id, "packet_failed")) = 1
        /\ \E k \in 1..Len(Messages(r)) :
              /\ Messages(r)[k].source_node_id \in Elems(Snapshot(r).nodes)
              /\ Messages(r)[k].destination_node_id \notin Elems(Snapshot(r).nodes)
              /\ Len(EventsOfType(r, Messages(r)[k].id, "packet_failed")) = 1

----------------------------------------------------------------------------
(* A start that disables anomalies *)

\* the accepted start calls that disable anomalies
DisabledStarts ==
    {i \in 1..Len(StartCalls) :
        /\ ~StartCalls[i].simulation_request.enable_anomalies
        /\ StartResponse(StartCalls[i]).start # << >>}

\* run r was started with the arguments the endpoint passes for a call that
\* disables anomalies
StartedWithoutAnomalies(r) ==
    /\ Started(r)
    /\ \E i \in DisabledStarts :
          Snapshot(r) = StartResponse(StartCalls[i]).start[1]

\* the session of run r has an active rule in the database
SessionHasActiveRules(r) ==
    \E i \in 1..Len(Database[Snapshot(r).session_id].anomalies) :
        Database[Snapshot(r).session_id].anomalies[i].is_active

\* C31: a run started by a request that disables anomalies has an empty
\* rule set, whatever rules its session has: no decision of its anomaly
\* engine fires, no packet_lost and no packet_misdelivered is published,
\* every packet_arrived is uncorrupted and carries the latency of its edge
\* as delay, and a message with a route whose walk has returned has
\* packet_delivered as its only terminal event and its last event
C31_DisabledAnomaliesCleanRun ==
    \A r \in RunIds :
        /\ (/\ call.op = "start"
            /\ ~call.simulation_request.enable_anomalies
            /\ result = << SimulationResponse(r) >>)
           => /\ Started(r)
              /\ Snapshot(r).session_id = call.session_id
              /\ Snapshot(r).anomalies = << >>
              /\ Rules(r) = << >>
        /\ StartedWithoutAnomalies(r) =>
              /\ Rules(r) = << >>
              /\ \A k \in 1..Len(decided[r]) : ~decided[r][k].fired
              /\ ~HasEvent(r, "packet_lost")
              /\ ~HasEvent(r, "packet_misdelivered")
              /\ \A i \in 1..Len(events[r]) :
                    events[r][i].event_type = "packet_arrived" =>
                        /\ ~events[r][i].is_corrupted
                        /\ events[r][i].delay_ms
                              = EdgeLatency(r, events[r][i].from, events[r][i].node)
              /\ \A k \in 1..Len(Messages(r)) :
                    (Walked(r, k) /\ Routes[args[r]][k] # << >>) =>
                        LET published == MessageEvents(r, Messages(r)[k].id)
                        IN /\ published # << >>
                           /\ published[Len(published)].event_type
                                 = "packet_delivered"
                           /\ Len(TerminalEvents(r, Messages(r)[k].id)) = 1

\* a run started with anomalies disabled in a session whose database rows
\* hold an active rule, a loss of probability 1 at the source of its
\* message, has walked the message to its delivery
C31_Witness ==
    \E r \in RunIds :
        /\ StartedWithoutAnomalies(r)
        /\ SessionHasActiveRules(r)
        /\ \E i \in 1..Len(Database[Snapshot(r).session_id].anomalies) :
              LET a == Database[Snapshot(r).session_id].anomalies[i]
              IN /\ a.is_active /\ a.anomaly_type = "packet_loss"
                 /\ a.probability = P1
                 /\ a.affected_node_id = Messages(r)[1].source_node_id
        /\ Walked(r, 1)
        /\ HasEvent(r, "packet_arrived")
        /\ HasEvent(r, "packet_delivered")

----------------------------------------------------------------------------
(* Fan-out of a publish *)

\* the broadcast the handler of w awaits returns in this step
BroadcastReturns(w) == ws_sending[w] # << >> /\ ws_sending'[w] = << >>

\* the sockets a broadcast has sent its event to when it returns, its last
\* send having returned or raised in the step
SentAtReturn(f) ==
    IF SendSucceeds(f.cur) THEN Append(f.sent, f.cur) ELSE f.sent

\* dead_connections when a broadcast returns
DeadAtReturn(f) ==
    IF SendSucceeds(f.cur) THEN f.dead ELSE Append(f.dead, f.cur)

\* the subscribers of the session of w that were in its list when the
\* handler of w began its broadcast (they connected no later than w) and
\* are open when it returns: a closed connection never opens again, and an
\* open one was never removed
StayedConnected(w) ==
    {v \in 1..w : /\ sockets[v].session_id = sockets[w].session_id
                  /\ sockets[v].state = "open"}

\* C32: a broadcast in which a send failed has, when it returns, sent the
\* event to every live subscriber of the session; the subscribers whose send
\* failed are then out of the session's list, and the session has no entry
\* with an empty list
C32_FailedSendIsolated ==
    [][\A w \in Sockets :
          (BroadcastReturns(w) /\ DeadAtReturn(ws_sending[w][1]) # << >>) =>
              LET f == ws_sending[w][1]
                  s == f.session_id
              IN /\ \A v \in StayedConnected(w) : InSeq(v, SentAtReturn(f))
                 /\ \A k \in 1..Len(DeadAtReturn(f)) :
                       s \in DOMAIN active_connections'
                       => ~InSeq(DeadAtReturn(f)[k], active_connections'[s])
                 /\ s \in DOMAIN active_connections'
                       => active_connections'[s] # << >>]_vars

----------------------------------------------------------------------------
(* Routes longer than the cutoff of the path query *)

\* the endpoints of the k-th message of run r are joined, and by no way of
\* PathCutoff edges or fewer
OnlyLongRoutes(r, k) ==
    HopsFrom(Network(r), {Messages(r)[k].source_node_id},
             Messages(r)[k].destination_node_id, 0) > PathCutoff

\* C33: a message whose endpoints are joined only by routes of more than
\* PathCutoff edges is unroutable for the walker although its endpoints
\* share a connected component and the shortest-path query returns a route
\* for them: the path query of the walk returns nothing, the only event of
\* the message is packet_failed with the reason no path, and no packet_sent
\* is published for it
C33_LongRouteIsNoRoute ==
    \A r \in RunIds :
        Started(r) =>
            \A k \in 1..Len(Messages(r)) :
                OnlyLongRoutes(r, k) =>
                    LET s == MessageEvents(r, Messages(r)[k].id)
                        shortest ==
                            find_shortest_path(Network(r),
                                               Messages(r)[k].source_node_id,
                                               Messages(r)[k].destination_node_id)
                    IN /\ EndpointsConnected(r, k)
                       /\ \A p \in shortest :
                             /\ p # << >>
                             /\ Len(p[1]) - 1 > PathCutoff
                       /\ Len(s) <= 1
                       /\ Walked(r, k) <=> Len(s) = 1
                       /\ Len(s) = 1 =>
                             /\ s[1].event_type = "packet_failed"
                             /\ Reason(s[1]) = "No path available"

\* the message between the ends of a line of PathCutoff + 1 edges failed,
\* and the message after it, between two nodes PathCutoff edges apart on the
\* same line, was delivered
C33_Witness ==
    \E r \in RunIds :
        /\ Started(r)
        /\ Len(Messages(r)) = 2
        /\ OnlyLongRoutes(r, 1)
        /\ EndpointsConnected(r, 1)
        /\ RanToEnd(r)
        /\ Len(MessageEvents(r, Messages(r)[1].id)) = 1
        /\ HasEvent(r, "packet_failed")
        /\ LET s == MessageEvents(r, Messages(r)[2].id)
           IN /\ s[Len(s)].event_type = "packet_delivered"
              /\ Len(s[Len(s)].path) = PathCutoff + 1

----------------------------------------------------------------------------
(* Every hop of a chosen path has edge info *)

\* the packet_arrived events of a message, as (from, node) pairs in order
ArrivalsOf(r, id) ==
    LET arrived == EventsOfType(r, id, "packet_arrived")
    IN [i \in 1..Len(arrived) |-> << arrived[i].from, arrived[i].node >>]

\* the hops of a path, as (current, next) pairs in order
HopsOf(path) == [i \in 1..(Len(path) - 1) |-> << path[i], path[i + 1] >>]

\* C34: the graph of a run is the one built at its start, and in it every
\* hop of every path the walker chooses has edge info, so no hop is skipped:
\* by the time packet_delivered is published for a message, exactly one
\* packet_arrived has been published for each hop of its path, in path
\* order, and the event before packet_delivered is the packet_arrived at the
\* destination of the message
C34_NoHopSkipped ==
    \A r \in RunIds :
        Started(r) =>
            /\ \A k \in 1..Len(Messages(r)) :
                  Routes[args[r]][k] # << >> =>
                      LET path == Routes[args[r]][k][1]
                      IN /\ Len(path) >= 2
                         /\ HopsWithInfo(r, path) = 1..(Len(path) - 1)
            /\ \A k \in 1..Len(Messages(r)) :
                  LET id == Messages(r)[k].id
                      published == MessageEvents(r, id)
                      n == Len(published)
                  IN (n > 0 /\ published[n].event_type = "packet_delivered") =>
                        /\ ArrivalsOf(r, id) = HopsOf(published[n].path)
                        /\ n >= 3
                        /\ published[n - 1].event_type = "packet_arrived"
                        /\ published[n - 1].node
                              = Messages(r)[k].destination_node_id

\* a message was delivered over a path of two hops, the second of which it
\* took from the higher node of its connection to the lower
C34_Witness ==
    \E r \in RunIds :
        /\ Started(r)
        /\ \E k \in 1..Len(Messages(r)) :
              LET published == MessageEvents(r, Messages(r)[k].id)
                  n == Len(published)
              IN /\ n > 0
                 /\ published[n].event_type = "packet_delivered"
                 /\ Len(published[n].path) >= 3
                 /\ \E i \in 1..(Len(published[n].path) - 1) :
                       published[n].path[i] > published[n].path[i + 1]

-----------------------------------------------------------------------------
(* A stop and the other runs *)

\* a stop request has stopped run r in this step
StopTakesEffect(r) == stopped'[r] /\ ~stopped[r]

\* what the engine holds for run o and what the task of run o holds
RunState(o) ==
    [active |-> IF o \in DOMAIN active_simulations
                THEN << active_simulations[o] >> ELSE << >>,
     task |-> o \in DOMAIN simulation_tasks,
     must_cancel |-> must_cancel[o],
     cancels |-> cancels[o],
     stopped |-> stopped[o],
     args |-> args[o],
     pc |-> pc[o],
     msg_i |-> msg_i[o],
     hop_i |-> hop_i[o],
     events |-> events[o],
     error_at |-> error_at[o],
     saw_inactive |-> saw_inactive[o],
     decided |-> decided[o],
     slept |-> slept[o]]

\* C35: the step in which a stop request stops run r leaves the registry
\* entries, the task and the events of every other run as they were; and a
\* run that was never stopped itself is never cancelled and never sees its
\* flag cleared, whatever stops the other runs get: once its task has
\* returned without an exception its last event is simulation_completed
C35_StopLeavesOtherRuns ==
    [][/\ \A r \in RunIds :
             StopTakesEffect(r) =>
                 \A o \in RunIds \ {r} : RunState(o)' = RunState(o)
       /\ \A o \in RunIds :
             ~stopped'[o] =>
                 /\ ~must_cancel'[o]
                 /\ ~saw_inactive'[o]
                 /\ cancels'[o] = 0
                 /\ (pc'[o] = "done" /\ error_at'[o] = 0) =>
                        LastEvent(o)'.event_type = "simulation_completed"]_vars

\* a run was stopped while another was walking, and the other has gone on
\* to complete
C35_Witness ==
    \E r, o \in RunIds :
        /\ r # o
        /\ stopped[r]
        /\ HasEvent(r, "packet_sent")
        /\ ~HasEvent(r, "simulation_completed")
        /\ ~stopped[o]
        /\ pc[o] = "done"
        /\ Len(events[o]) > Len(events[r])
        /\ LastEvent(o).event_type = "simulation_completed"

-----------------------------------------------------------------------------
(* The stop endpoint *)

\* the stop endpoint has answered a request naming run r
StopAnswers(r) ==
    /\ EndpointAnswers
    /\ call'.op = "stop"
    /\ call'.simulation_id = r

\* C36: a stop request made through session S for a run started for another
\* session leaves that run as it was: still registered, still flagged
\* running, its task not cancelled
C36_StopOnlyOwnRuns ==
    [][\A r \in RunIds :
          (/\ StopAnswers(r)
           /\ Started(r)
           /\ OwningSession(r) # call'.session_id) =>
              /\ RunState(r)' = RunState(r)
              /\ IsActive(active_simulations, r) =>
                     IsActive(active_simulations', r)]_vars

-----------------------------------------------------------------------------
(* The kinds and the field no scan reads *)

\* the places in a policy set of the rules of a kind some scan selects
ScannedPlaces(rules) ==
    SelectSeq([i \in 1..Len(rules) |-> i],
              LAMBDA i : rules[i].anomaly_type \in RuleKinds)

\* the policy set without its rules of the other kinds, no rule of it
\* naming a connection
WithoutUnscanned(rules) ==
    [k \in 1..Len(ScannedPlaces(rules)) |->
        [rules[ScannedPlaces(rules)[k]] EXCEPT !.affected_connection_id = None]]

\* the draws of the rules that are left
DrawsWithoutUnscanned(rules, draws) ==
    [k \in 1..Len(ScannedPlaces(rules)) |-> draws[ScannedPlaces(rules)[k]]]

\* C37: the four decisions of a policy set at a node are those of the set
\* without its out_of_order and connection_loss rules and without the
\* affected connection of any rule, for the same draws; a firing rule that
\* names an affected connection and no affected node decides the decision
\* of its kind at whatever node it is taken
C37_UnscannedRulesChangeNothing ==
    ScanQueryReturned =>
        LET rules == AnomalyEngineInit(call.rules)
        IN /\ result[1] =
                 Decisions(WithoutUnscanned(rules), call.node, call.base_delay,
                           DrawsWithoutUnscanned(rules, call.draws),
                           call.available_nodes, call.choice)
           /\ \A i \in 1..Len(rules) :
                 (/\ rules[i].anomaly_type \in RuleKinds
                  /\ rules[i].affected_node_id = None
                  /\ rules[i].affected_connection_id # None
                  /\ call.draws[i] < rules[i].probability) =>
                     Affected(result[1], rules[i].anomaly_type)

\* a connection_loss rule that would fire, then a loss rule that names
\* connection 7 and no node and fires, queried at node 2: a loss
C37_Witness ==
    /\ ScanQueryReturned
    /\ call.node = 2
    /\ Len(call.rules) = 2
    /\ call.rules[1].anomaly_type = "connection_loss"
    /\ call.rules[1].affected_node_id = None
    /\ call.rules[2].anomaly_type = "packet_loss"
    /\ call.rules[2].affected_node_id = None
    /\ call.rules[2].affected_connection_id = 7
    /\ \A i \in 1..2 : call.draws[i] < call.rules[i].probability
    /\ result[1].loss

-----------------------------------------------------------------------------
(* Subscribers changing during a broadcast *)

\* how many sends of a broadcast went to socket v
TimesSent(sent, v) == Cardinality({k \in 1..Len(sent) : sent[k] = v})

\* C38: whatever connects, closes or is removed while a broadcast is
\* suspended in a send, the broadcast has, when it returns, sent the event
\* exactly once to every subscriber that was in the session's list when it
\* began and is still connected
C38_FanOutSafeAgainstChanges ==
    [][\A w \in Sockets :
          BroadcastReturns(w) =>
              \A v \in StayedConnected(w) :
                  TimesSent(SentAtReturn(ws_sending[w][1]), v) = 1]_vars

-----------------------------------------------------------------------------
(* The end of a websocket handler *)

\* the handler of w has returned: its connection closed or its receive loop
\* ended on an error
HandlerReturned(w) == sockets[w].state = "closed" /\ ~sockets[w].handler

\* C39: once the handler of a viewer has returned, its socket is in the
\* list of no session and no broadcast is awaiting a send to it
C39_ClosedViewerRemoved ==
    \A w \in Sockets :
        HandlerReturned(w) =>
            /\ \A s \in DOMAIN active_connections :
                  ~InSeq(w, active_connections[s])
            /\ \A v \in Sockets :
                  ws_sending[v] # << >> => ws_sending[v][1].cur # w

-----------------------------------------------------------------------------
(* Undo followed by redo *)

\* is_undone of every row of the table, in the order of the ids
UndoneFlags(history) == [i \in 1..Len(history) |-> history[i].is_undone]

====
